---- MODULE Spec2Model ----
(***************************************************************************)
(* Tab graph builder (standalone_scripts/build_graph.py): URL              *)
(* canonicalisation, near-duplicate resolution, similarity edges and       *)
(* union-find grouping, modelled as state machines.                        *)
(*                                                                         *)
(* Strings that the code inspects character by character (URLs) are        *)
(* sequences of one-character strings over printable ASCII.  Scores are    *)
(* fixed-point integers: a score s stands for the float s / Scale.         *)
(***************************************************************************)
EXTENDS Integers, Sequences, FiniteSets, TLC

(***************************************************************************)
(* Characters and string helpers (Python str methods used by the code).    *)
(***************************************************************************)
\* Printable ASCII, code points 32..126 in order ("<96>" stands for the
\* grave accent, which cannot be written in a string here).
Ascii ==
  <<
    " ", "!", "\"", "#", "$", "%", "&", "'", "(", ")", "*", "+", ",", "-", ".", "/",
    "0", "1", "2", "3", "4", "5", "6", "7", "8", "9", ":", ";", "<", "=", ">", "?",
    "@", "A", "B", "C", "D", "E", "F", "G", "H", "I", "J", "K", "L", "M", "N", "O",
    "P", "Q", "R", "S", "T", "U", "V", "W", "X", "Y", "Z", "[", "\\", "]", "^", "_",
    "<96>", "a", "b", "c", "d", "e", "f", "g", "h", "i", "j", "k", "l", "m", "n", "o",
    "p", "q", "r", "s", "t", "u", "v", "w", "x", "y", "z", "{", "|", "}", "~" >>

AsciiSet == {Ascii[i] : i \in 1..Len(Ascii)}

\* ord(c)
CodeOf == [c \in AsciiSet |-> 31 + CHOOSE i \in 1..Len(Ascii) : Ascii[i] = c]

\* chr(n)
Chr(n) == Ascii[n - 31]

IsUpper(c) == CodeOf[c] \in 65..90

IsLower(c) == CodeOf[c] \in 97..122

IsDigit(c) == CodeOf[c] \in 48..57

\* c in "0123456789abcdefABCDEF"
IsHex(c) == IsDigit(c) \/ CodeOf[c] \in 65..70 \/ CodeOf[c] \in 97..102

\* c.isascii() and c.isalpha()
IsAlpha(c) == IsUpper(c) \/ IsLower(c)

\* urllib.parse.scheme_chars: letters, digits and "+-."
IsSchemeChar(c) == IsAlpha(c) \/ IsDigit(c) \/ c \in {"+", "-", "."}

LowerChar(c) == IF IsUpper(c) THEN Chr(CodeOf[c] + 32) ELSE c

RECURSIVE Lower(_)
\* str.lower()
Lower(s) == IF s = <<>> THEN <<>> ELSE <<LowerChar(Head(s))>> \o Lower(Tail(s))

\* str.find(c, from) with 1-based positions; 0 when c does not occur.
IndexFrom(s, c, from) ==
  LET I == {i \in from..Len(s) : s[i] = c}
  IN  IF I = {} THEN 0 ELSE CHOOSE i \in I : \A j \in I : i <= j

\* str.rfind(c) with 1-based positions; 0 when c does not occur.
RIndex(s, c) ==
  LET I == {i \in 1..Len(s) : s[i] = c}
  IN  IF I = {} THEN 0 ELSE CHOOSE i \in I : \A j \in I : j <= i

Contains(s, c) == \E i \in 1..Len(s) : s[i] = c

\* str.startswith(p)
StartsWith(s, p) == Len(s) >= Len(p) /\ SubSeq(s, 1, Len(p)) = p

\* str.endswith(p)
EndsWith(s, p) == Len(s) >= Len(p) /\ SubSeq(s, Len(s) - Len(p) + 1, Len(s)) = p

\* s[k:] for a 0-based k
From(s, k) == SubSeq(s, k + 1, Len(s))

RECURSIVE Split(_, _)
\* str.split(c): the pieces between occurrences of c, empty pieces kept.
Split(s, c) ==
  LET i == IndexFrom(s, c, 1)
  IN  IF i = 0 THEN <<s>>
      ELSE <<SubSeq(s, 1, i - 1)>> \o Split(SubSeq(s, i + 1, Len(s)), c)

RECURSIVE Replace(_, _, _)
\* str.replace(a, b) for single characters
Replace(s, a, b) ==
  IF s = <<>> THEN <<>>
  ELSE <<IF Head(s) = a THEN b ELSE Head(s)>> \o Replace(Tail(s), a, b)

RECURSIVE Lstrip(_)
\* url.lstrip(_WHATWG_C0_CONTROL_OR_SPACE); within printable ASCII only " ".
Lstrip(s) == IF s # <<>> /\ Head(s) = " " THEN Lstrip(Tail(s)) ELSE s

RECURSIVE StrLess(_, _)
\* Python's order on str: lexicographic by code point.
StrLess(a, b) ==
  IF b = <<>> THEN FALSE
  ELSE IF a = <<>> THEN TRUE
  ELSE IF Head(a) # Head(b) THEN CodeOf[Head(a)] < CodeOf[Head(b)]
  ELSE StrLess(Tail(a), Tail(b))

RECURSIVE Join(_, _)
\* sep.join(parts)
Join(parts, sep) ==
  IF parts = <<>> THEN <<>>
  ELSE IF Len(parts) = 1 THEN parts[1]
  ELSE parts[1] \o sep \o Join(Tail(parts), sep)

(***************************************************************************)
(* urllib.parse as called by canonicalize_url (CPython 3.11).              *)
(***************************************************************************)
\* urllib.parse.uses_netloc
UsesNetloc ==
  { <<>>, <<"f","t","p">>, <<"h","t","t","p">>, <<"g","o","p","h","e","r">>, <<"n","n","t","p">>, <<"t","e","l","n","e","t">>, <<"i","m","a","p">>, <<"w","a","i","s">>,
    <<"f","i","l","e">>, <<"m","m","s">>, <<"h","t","t","p","s">>, <<"s","h","t","t","p">>, <<"s","n","e","w","s">>, <<"p","r","o","s","p","e","r","o">>, <<"r","t","s","p">>,
    <<"r","t","s","p","s">>, <<"r","t","s","p","u">>, <<"r","s","y","n","c">>, <<"s","v","n">>, <<"s","v","n","+","s","s","h">>, <<"s","f","t","p">>, <<"n","f","s">>,
    <<"g","i","t">>, <<"g","i","t","+","s","s","h">>, <<"w","s">>, <<"w","s","s">> }

\* urllib.parse.uses_params
UsesParams ==
  { <<>>, <<"f","t","p">>, <<"h","d","l">>, <<"p","r","o","s","p","e","r","o">>, <<"h","t","t","p">>, <<"i","m","a","p">>, <<"h","t","t","p","s">>, <<"s","h","t","t","p">>,
    <<"r","t","s","p">>, <<"r","t","s","p","s">>, <<"r","t","s","p","u">>, <<"s","i","p">>, <<"s","i","p","s">>, <<"m","m","s">>, <<"s","f","t","p">>, <<"t","e","l">> }

(***************************************************************************)
(* ipaddress, as called by urlsplit for a host in brackets.                *)
(***************************************************************************)
\* int(octet_str, 10) for a string of digits
RECURSIVE DecimalOf(_, _)
DecimalOf(digits, acc) ==
  IF digits = <<>> THEN acc
  ELSE DecimalOf(Tail(digits), acc * 10 + (CodeOf[Head(digits)] - 48))

\* IPv4Address._parse_octet does not raise: one to three decimal digits, no
\* leading zero, at most 255.
IsOctet(octet_str) ==
  /\ octet_str # <<>>
  /\ \A k \in 1..Len(octet_str) : IsDigit(octet_str[k])
  /\ Len(octet_str) <= 3
  /\ (octet_str = <<"0">> \/ octet_str[1] # "0")
  /\ DecimalOf(octet_str, 0) <= 255

\* The octets of IPv4Address._ip_int_from_string are four and all parse.
AreOctets(octets) ==
  Len(octets) = 4 /\ \A k \in 1..Len(octets) : IsOctet(octets[k])

\* IPv4Address(ip_str) does not raise.
IsIPv4(ip_str) ==
  /\ ~Contains(ip_str, "/")
  /\ ip_str # <<>>
  /\ AreOctets(Split(ip_str, "."))

\* IPv6Address._parse_hextet does not raise: one to four hex digits (an
\* empty hextet fails in int).
IsHextet(hextet_str) ==
  /\ hextet_str # <<>>
  /\ \A k \in 1..Len(hextet_str) : IsHex(hextet_str[k])
  /\ Len(hextet_str) <= 4

\* The end of IPv6Address._ip_int_from_string for an address with a "::" at
\* part skip: parts_hi and parts_lo, and the hextets on both sides.
HextetsAround(parts, skip, parts_hi, parts_lo) ==
  /\ (parts[1] = <<>> => parts_hi = 0)
  /\ (parts[Len(parts)] = <<>> => parts_lo = 0)
  /\ 8 - (parts_hi + parts_lo) >= 1
  /\ \A k \in 1..parts_hi : IsHextet(parts[k])
  /\ \A k \in (Len(parts) - parts_lo + 1)..Len(parts) : IsHextet(parts[k])

\* The parts of an IPv6 address, the IPv4 suffix already replaced by two
\* hextets: at most nine; with one "::", the hextets around it, and without,
\* eight hextets.
AreHextets(parts, skips) ==
  /\ Len(parts) <= 9
  /\ Cardinality(skips) <= 1
  /\ IF skips # {}
     THEN \A skip \in skips :
            HextetsAround(parts, skip,
                          IF parts[1] = <<>> THEN skip - 2 ELSE skip - 1,
                          IF parts[Len(parts)] = <<>> THEN Len(parts) - skip - 1
                          ELSE Len(parts) - skip)
     ELSE Len(parts) = 8 /\ \A k \in 1..8 : IsHextet(parts[k])

\* The empty parts that are not at an end: the places of "::".
SkipsOf(parts) == {k \in 2..(Len(parts) - 1) : parts[k] = <<>>}

\* IPv6Address._ip_int_from_string does not raise, given ip_str.split(":").
\* A last part with a "." is an IPv4 address, which counts for two hextets.
ArePartsOfIPv6(parts) ==
  /\ Len(parts) >= 3
  /\ IF Contains(parts[Len(parts)], ".")
     THEN /\ IsIPv4(parts[Len(parts)])
          /\ AreHextets(SubSeq(parts, 1, Len(parts) - 1) \o <<<<"0">>, <<"0">>>>,
                        SkipsOf(SubSeq(parts, 1, Len(parts) - 1) \o <<<<"0">>, <<"0">>>>))
     ELSE AreHextets(parts, SkipsOf(parts))

\* IPv6Address._split_scope_id does not raise, and the address before the
\* "%" at position p (0: none) parses.
IsIPv6At(ip_str, p) ==
  IF p = 0 THEN ip_str # <<>> /\ ArePartsOfIPv6(Split(ip_str, ":"))
  ELSE /\ p < Len(ip_str)
       /\ ~Contains(From(ip_str, p), "%")
       /\ p > 1
       /\ ArePartsOfIPv6(Split(SubSeq(ip_str, 1, p - 1), ":"))

\* IPv6Address(ip_str) does not raise.
IsIPv6(ip_str) == ~Contains(ip_str, "/") /\ IsIPv6At(ip_str, IndexFrom(ip_str, "%", 1))

\* re.match(r"\Av[a-fA-F0-9]+\..+\Z", hostname), given the position dot of
\* the first "."
IsIPvFutureAt(hostname, dot) ==
  /\ dot >= 3
  /\ \A k \in 2..(dot - 1) : IsHex(hostname[k])
  /\ Len(hostname) > dot

\* _check_bracketed_host(hostname) raises ValueError.
BracketedHostRaises(hostname) ==
  IF StartsWith(hostname, <<"v">>)
  THEN ~IsIPvFutureAt(hostname, IndexFrom(hostname, ".", 1))
  ELSE IsIPv4(hostname) \/ ~IsIPv6(hostname)

\* netloc.partition("[")[2].partition("]")[0] for a netloc with both
\* brackets, the first "[" at position open
BracketedHostAt(netloc, open, close) ==
  IF close = 0 THEN From(netloc, open) ELSE SubSeq(netloc, open + 1, close - 1)

BracketedHost(netloc, open) ==
  BracketedHostAt(netloc, open, IndexFrom(netloc, "]", open + 1))

\* The checks of urlsplit on the netloc raise ValueError: one bracket
\* without the other, or a host in brackets that is neither an IPv6 nor an
\* IPvFuture address.
NetlocRaises(netloc) ==
  IF Contains(netloc, "[") # Contains(netloc, "]") THEN TRUE
  ELSE IF Contains(netloc, "[")
  THEN BracketedHostRaises(BracketedHost(netloc, IndexFrom(netloc, "[", 1)))
  ELSE FALSE

\* urlsplit: scheme, netloc, path, query and fragment of a URL string.
\* raises = the ValueError of the checks on the netloc.
\* The steps follow the function's body; each passes what it has split off
\* and the rest of the URL to the next.
\*
\* Last step: url.split("?", 1) at position q, and the result.
SplitQueryAt(scheme, netloc, fragment, url4, q) ==
  [ raises   |-> NetlocRaises(netloc),
    scheme   |-> scheme,
    netloc   |-> netloc,
    path     |-> IF q > 0 THEN SubSeq(url4, 1, q - 1) ELSE url4,
    query    |-> IF q > 0 THEN From(url4, q) ELSE <<>>,
    fragment |-> fragment ]

\* if "?" in url: url, query = url.split("?", 1)
SplitQuery(scheme, netloc, fragment, url4) ==
  SplitQueryAt(scheme, netloc, fragment, url4, IndexFrom(url4, "?", 1))

\* url.split("#", 1) at position h
SplitFragmentAt(scheme, netloc, url3, h) ==
  SplitQuery(scheme, netloc,
             IF h > 0 THEN From(url3, h) ELSE <<>>,
             IF h > 0 THEN SubSeq(url3, 1, h - 1) ELSE url3)

\* if "#" in url: url, fragment = url.split("#", 1)
SplitFragment(scheme, netloc, url3) ==
  SplitFragmentAt(scheme, netloc, url3, IndexFrom(url3, "#", 1))

\* _splitnetloc(url, 2): the netloc ends before position delim
SplitNetlocAt(scheme, url2, hasNetloc, delim) ==
  SplitFragment(scheme,
                IF hasNetloc THEN SubSeq(url2, 3, delim - 1) ELSE <<>>,
                IF hasNetloc THEN SubSeq(url2, delim, Len(url2)) ELSE url2)

\* if url[:2] == "//": netloc, url = _splitnetloc(url, 2)
SplitNetloc(scheme, url2) ==
  LET D == {k \in 3..Len(url2) : url2[k] \in {"/", "?", "#"}}
  IN  SplitNetlocAt(scheme, url2, StartsWith(url2, <<"/","/">>),
                    IF D = {} THEN Len(url2) + 1
                    ELSE CHOOSE k \in D : \A j \in D : k <= j)

\* The scheme is url[:i] when i > 0, it starts with a letter and holds only
\* scheme characters.
SplitSchemeAt(url1, i) ==
  LET hasScheme == /\ i > 1
                   /\ IsAlpha(url1[1])
                   /\ \A k \in 1..(i - 1) : IsSchemeChar(url1[k])
  IN  SplitNetloc(IF hasScheme THEN Lower(SubSeq(url1, 1, i - 1)) ELSE <<>>,
                  IF hasScheme THEN From(url1, i) ELSE url1)

\* i = url.find(":")
SplitScheme(url1) == SplitSchemeAt(url1, IndexFrom(url1, ":", 1))

urlsplit(url0) == SplitScheme(Lstrip(url0))

\* _splitparams: the path without the ";params" of its last segment.
splitparams(url) ==
  LET s == RIndex(url, "/")
      i == IF s > 0 THEN IndexFrom(url, ";", s) ELSE IndexFrom(url, ";", 1)
  IN  IF i = 0 THEN url ELSE SubSeq(url, 1, i - 1)

\* The params are split off the path of a urlsplit result r.
ParamsOff(r) ==
  IF r.scheme \in UsesParams /\ Contains(r.path, ";")
  THEN [r EXCEPT !.path = splitparams(r.path)]
  ELSE r

\* urlparse: urlsplit, then the params are split off the path.
urlparse(url) == ParamsOff(urlsplit(url))

\* urlunparse((scheme, netloc, path, params, query, fragment)): the params
\* go back on the path, and urlunsplit writes the string.
urlunparse(scheme, netloc, path, params, query, fragment) ==
  LET url0 == IF params # <<>> THEN path \o <<";">> \o params ELSE path
      url1 == IF netloc # <<>>
                 \/ (scheme # <<>> /\ scheme \in UsesNetloc /\ ~StartsWith(url0, <<"/","/">>))
              THEN <<"/","/">> \o netloc
                   \o (IF url0 # <<>> /\ Head(url0) # "/" THEN <<"/">> ELSE <<>>)
                   \o url0
              ELSE url0
      url2 == IF scheme # <<>> THEN scheme \o <<":">> \o url1 ELSE url1
      url3 == IF query # <<>> THEN url2 \o <<"?">> \o query ELSE url2
  IN  IF fragment # <<>> THEN url3 \o <<"#">> \o fragment ELSE url3

(***************************************************************************)
(* urllib.parse.urljoin, as called by extract_canonical_url.               *)
(***************************************************************************)
\* What a call that raises ValueError gives in place of a string.
ValueError == <<"ValueError">>

\* urllib.parse.uses_relative
UsesRelative ==
  { <<>>, <<"f","t","p">>, <<"h","t","t","p">>, <<"g","o","p","h","e","r">>, <<"n","n","t","p">>, <<"i","m","a","p">>, <<"w","a","i","s">>,
    <<"f","i","l","e">>, <<"h","t","t","p","s">>, <<"s","h","t","t","p">>, <<"m","m","s">>, <<"p","r","o","s","p","e","r","o">>, <<"r","t","s","p">>,
    <<"r","t","s","p","s">>, <<"r","t","s","p","u">>, <<"s","f","t","p">>, <<"s","v","n">>, <<"s","v","n","+","s","s","h">>, <<"w","s">>, <<"w","s","s">> }

\* urlparse(url, scheme) given r = urlsplit(url) and the scheme settled: the
\* params are split off the path and kept.
ParamsSplit(r, scheme) ==
  [ raises   |-> r.raises,
    scheme   |-> scheme,
    netloc   |-> r.netloc,
    path     |-> IF scheme \in UsesParams /\ Contains(r.path, ";")
                 THEN splitparams(r.path) ELSE r.path,
    params   |-> IF scheme \in UsesParams /\ Contains(r.path, ";")
                 THEN From(r.path, Len(splitparams(r.path)) + 1) ELSE <<>>,
    query    |-> r.query,
    fragment |-> r.fragment ]

\* urlparse(url, scheme): a URL that names no scheme gets the given one.
urlparse_scheme(r, scheme) == ParamsSplit(r, IF r.scheme = <<>> THEN scheme ELSE r.scheme)

\* base_parts: bpath.split("/") without a last piece that is not empty
BaseParts(parts) ==
  IF parts[Len(parts)] # <<>> THEN SubSeq(parts, 1, Len(parts) - 1) ELSE parts

\* segments[1:-1] = filter(None, segments[1:-1])
FilterInner(segments) ==
  IF Len(segments) <= 2 THEN segments
  ELSE <<segments[1]>>
       \o SelectSeq(SubSeq(segments, 2, Len(segments) - 1), LAMBDA seg : seg # <<>>)
       \o <<segments[Len(segments)]>>

\* The segments to resolve: those of an absolute path alone, else those of
\* the base and of the path.
Segments(bpath, path) ==
  IF path # <<>> /\ Head(path) = "/" THEN Split(path, "/")
  ELSE FilterInner(BaseParts(Split(bpath, "/")) \o Split(path, "/"))

RECURSIVE Resolve(_, _)
\* The loop over the segments: ".." drops the last piece of resolved_path
\* when there is one, "." is skipped.
Resolve(segments, resolved_path) ==
  IF segments = <<>> THEN resolved_path
  ELSE IF Head(segments) = <<".",".">>
  THEN Resolve(Tail(segments),
               IF resolved_path = <<>> THEN <<>>
               ELSE SubSeq(resolved_path, 1, Len(resolved_path) - 1))
  ELSE IF Head(segments) = <<".">> THEN Resolve(Tail(segments), resolved_path)
  ELSE Resolve(Tail(segments), Append(resolved_path, Head(segments)))

\* "/".join(resolved_path) or "/", with the trailing "/" of a path that ends
\* in "." or ".."
ResolvedPath(segments) ==
  LET joined == Join(Resolve(segments, <<>>)
                     \o (IF segments[Len(segments)] \in {<<".">>, <<".",".">>}
                         THEN << <<>> >> ELSE <<>>),
                     <<"/">>)
  IN  IF joined = <<>> THEN <<"/">> ELSE joined

\* urljoin after both URLs are parsed: b is the base, u the URL with the
\* scheme of the base when it names none.
Joined(url, b, u) ==
  IF u.scheme # b.scheme \/ u.scheme \notin UsesRelative THEN url
  ELSE IF u.scheme \in UsesNetloc /\ u.netloc # <<>>
  THEN urlunparse(u.scheme, u.netloc, u.path, u.params, u.query, u.fragment)
  ELSE IF u.path = <<>> /\ u.params = <<>>
  THEN urlunparse(u.scheme, IF u.scheme \in UsesNetloc THEN b.netloc ELSE u.netloc,
                  b.path, b.params,
                  IF u.query = <<>> THEN b.query ELSE u.query, u.fragment)
  ELSE urlunparse(u.scheme, IF u.scheme \in UsesNetloc THEN b.netloc ELSE u.netloc,
                  ResolvedPath(Segments(b.path, u.path)), u.params, u.query, u.fragment)

\* The URL is parsed with the scheme of the base.
JoinTo(url, b) ==
  IF b.raises \/ urlsplit(url).raises THEN ValueError
  ELSE Joined(url, b, urlparse_scheme(urlsplit(url), b.scheme))

\* urljoin(base, url)
urljoin(base, url) ==
  IF base = <<>> THEN url
  ELSE IF url = <<>> THEN base
  ELSE JoinTo(url, urlparse_scheme(urlsplit(base), <<>>))

HexVal(c) ==
  IF IsDigit(c) THEN CodeOf[c] - 48
  ELSE IF IsUpper(c) THEN CodeOf[c] - 55 ELSE CodeOf[c] - 87

HexDigits == <<"0","1","2","3","4","5","6","7","8","9","A","B","C","D","E","F">>

RECURSIVE unquote(_)
\* urllib.parse.unquote: "%XX" becomes the character with that code.  Only
\* escapes of printable ASCII are decoded here; other text is kept.
unquote(s) ==
  IF s = <<>> THEN <<>>
  ELSE IF /\ Head(s) = "%"
          /\ Len(s) >= 3
          /\ IsHex(s[2]) /\ IsHex(s[3])
          /\ (16 * HexVal(s[2]) + HexVal(s[3])) \in 32..126
       THEN <<Chr(16 * HexVal(s[2]) + HexVal(s[3]))>> \o unquote(From(s, 3))
       ELSE <<Head(s)>> \o unquote(Tail(s))

RECURSIVE quote_plus(_)
\* urllib.parse.quote_plus: letters, digits and "_.-~" are kept, " " becomes
\* "+", every other character becomes "%XX".
quote_plus(s) ==
  IF s = <<>> THEN <<>>
  ELSE LET c == Head(s)
       IN  (IF IsAlpha(c) \/ IsDigit(c) \/ c \in {"_", ".", "-", "~"} THEN <<c>>
            ELSE IF c = " " THEN <<"+">>
            ELSE <<"%", HexDigits[(CodeOf[c] \div 16) + 1], HexDigits[(CodeOf[c] % 16) + 1]>>)
           \o quote_plus(Tail(s))

\* One "name=value" field of parse_qsl(keep_blank_values=True).
ParseField(nv) ==
  LET e == IndexFrom(nv, "=", 1)
      name == IF e = 0 THEN nv ELSE SubSeq(nv, 1, e - 1)
      value == IF e = 0 THEN <<>> ELSE From(nv, e)
  IN  <<unquote(Replace(name, "+", " ")), unquote(Replace(value, "+", " "))>>

RECURSIVE ParseFields(_)
ParseFields(fields) ==
  IF fields = <<>> THEN <<>>
  ELSE (IF Head(fields) = <<>> THEN <<>> ELSE <<ParseField(Head(fields))>>)
       \o ParseFields(Tail(fields))

\* parse_qsl(query, keep_blank_values=True): the (name, value) pairs in order.
parse_qsl(qs) == IF qs = <<>> THEN <<>> ELSE ParseFields(Split(qs, "&"))

RECURSIVE EncodeFields(_)
EncodeFields(params) ==
  IF params = <<>> THEN <<>>
  ELSE <<quote_plus(Head(params)[1]) \o <<"=">> \o quote_plus(Head(params)[2])>>
       \o EncodeFields(Tail(params))

\* urlencode(params, doseq=True) for string values.
urlencode(params) == Join(EncodeFields(params), <<"&">>)

(***************************************************************************)
(* URL canonicaliser.                                                      *)
(***************************************************************************)
TRACKING_PARAMS ==
  { <<"f","b","c","l","i","d">>, <<"g","c","l","i","d">>, <<"i","g","s","h","i","d">>, <<"m","c","_","c","i","d">>, <<"m","c","_","e","i","d">>, <<"m","s","c","l","k","i","d">>, <<"r","e","f">>,
    <<"r","e","f","_","s","r","c">>, <<"u","t","m","_","c","a","m","p","a","i","g","n">>, <<"u","t","m","_","c","o","n","t","e","n","t">>, <<"u","t","m","_","m","e","d","i","u","m">>, <<"u","t","m","_","s","o","u","r","c","e">>,
    <<"u","t","m","_","t","e","r","m">> }

\* As KeepParams, were no parameter dropped.
KeepAllParams(params) == params

\* The loop of canonicalize_url that drops tracking parameters.
RECURSIVE KeepParams(_)
KeepParams(params) ==
  IF params = <<>> THEN <<>>
  ELSE LET key_l == Lower(Head(params)[1])
       IN  (IF key_l \in TRACKING_PARAMS \/ StartsWith(key_l, <<"u","t","m","_">>)
            THEN <<>> ELSE <<Head(params)>>)
           \o KeepParams(Tail(params))

\* Python's order on (key, value) tuples.
PairLess(p, q) == StrLess(p[1], q[1]) \/ (p[1] = q[1] /\ StrLess(p[2], q[2]))

RECURSIVE InsertParam(_, _)
InsertParam(sorted, p) ==
  IF sorted = <<>> THEN <<p>>
  ELSE IF PairLess(p, Head(sorted)) THEN <<p>> \o sorted
  ELSE <<Head(sorted)>> \o InsertParam(Tail(sorted), p)

RECURSIVE SortParams(_)
\* params.sort()
SortParams(params) ==
  IF params = <<>> THEN <<>>
  ELSE InsertParam(SortParams(SubSeq(params, 1, Len(params) - 1)), params[Len(params)])

\* if ":" in netloc: cut at the last ":", position c, and drop a default port
StripPortAt(scheme, netloc, c) ==
  IF /\ c > 0
     /\ \/ (scheme = <<"h","t","t","p">> /\ From(netloc, c) = <<"8","0">>)
        \/ (scheme = <<"h","t","t","p","s">> /\ From(netloc, c) = <<"4","4","3">>)
  THEN SubSeq(netloc, 1, c - 1) ELSE netloc

StripPort(scheme, netloc) == StripPortAt(scheme, netloc, RIndex(netloc, ":"))

\* if netloc.startswith("www."): netloc = netloc[4:]
StripWww(netloc) == IF StartsWith(netloc, <<"w","w","w",".">>) THEN From(netloc, 4) ELSE netloc

\* if path != "/" and path.endswith("/"): path = path[:-1]
StripSlash(path) ==
  IF path # <<"/">> /\ EndsWith(path, <<"/">>)
  THEN SubSeq(path, 1, Len(path) - 1) ELSE path

\* The canonical string of a parsed URL whose scheme has been settled.
Rebuild(parsed, scheme) ==
  urlunparse(scheme,
             StripWww(StripPort(scheme, Lower(parsed.netloc))),
             StripSlash(IF parsed.path # <<>> THEN parsed.path ELSE <<"/">>),
             <<>>,
             urlencode(SortParams(KeepParams(parse_qsl(parsed.query)))),
             <<>>)

\* canonicalize_url after urlparse: the input when urlparse raised.
Canonical(url, parsed) ==
  IF parsed.raises THEN url
  ELSE Rebuild(parsed, Lower(IF parsed.scheme # <<>> THEN parsed.scheme ELSE <<"h","t","t","p","s">>))

canonicalize_url(url) == Canonical(url, urlparse(url))

\* url.startswith("http://") or url.startswith("https://")
is_http_url(url) == StartsWith(url, <<"h","t","t","p",":","/","/">>) \/ StartsWith(url, <<"h","t","t","p","s",":","/","/">>)

\* normalize_domain after urlparse: the host in lower case, without port and
\* one leading "www."; the ValueError of urlparse is not caught.
Domain(parsed) ==
  IF parsed.raises THEN ValueError
  ELSE StripWww(Split(Lower(parsed.netloc), <<":">>[1])[1])

normalize_domain(url) == Domain(urlparse(url))

(***************************************************************************)
(* State.                                                                  *)
(***************************************************************************)
VARIABLES
  \* canonicalize_url applied to one URL, to its own result, and to a
  \* variant of the URL
  parts,          \* the pieces the URL under test is written from
  url,            \* the URL string passed to canonicalize_url
  canon,          \* canonicalize_url(url)
  recanon,        \* canonicalize_url(canon)
  variant,        \* a second URL, differing from url in one respect
  vkind,          \* the respect in which variant differs from url
  vcanon,         \* canonicalize_url(variant)
  upc,            \* how far the calls above have got
  \* one run of main() over the loaded tabs
  args,                  \* the command-line options
  tabs,                  \* the tab records, indexed by id from 0
  primary_map,           \* id -> id of the primary of its duplicate cluster
  duplicates,            \* number of duplicate tabs
  primary_tabs,          \* the ids of the tabs that are not duplicates, in order
  similarity_matrix,     \* scores over the positions of primary_tabs
  edges,                 \* the edge list
  groups_primary,        \* the groups of primaries from build_groups
  tab_to_group_primary,  \* primary id -> group id
  groups,                \* the final group list
  pc,                    \* the position of main()
  \* build_groups applied to one input with the mutual-KNN filter on and off
  bg_tabs,        \* the primaries given to build_groups (id and domain)
  bg_matrix,      \* the similarity matrix given to build_groups
  bg_opts,        \* threshold, domain_group, domain_group_min and knn_k
  bg_mutual,      \* the result with mutual_knn=True
  bg_fallback,    \* the result with mutual_knn=False
  gpc,            \* how far the two calls have got
  \* the similarity scorer and build_edges applied to one list of tabs
  sc_tabs,        \* the tabs scored (id, domain, keywords, embedding)
  sc_opts,        \* domain_bonus and edge threshold
  sc_matrix,      \* build_similarity_matrix(sc_tabs, domain_bonus)
  sc_reverse,     \* similarity_score(tabs[j], tabs[i]) at [i][j]
  sc_edges,       \* build_edges(sc_tabs, sc_matrix, threshold)
  spc,            \* how far the calls have got
  \* simhash_from_tokens applied to a token list and to a permutation of it
  sh_tokens,      \* the token list
  sh_shuffled,    \* the same tokens in another order
  sh_value,       \* simhash_from_tokens(sh_tokens)
  sh_shuffled_value, \* simhash_from_tokens(sh_shuffled)
  hpc,            \* how far the two calls have got
  \* dedupe_tabs applied to one list of tabs
  dd_in,          \* the tabs given to dedupe_tabs
  dd_threshold,   \* hamming_threshold
  dd_out,         \* the tabs, primary_map and duplicates afterwards
  dpc             \* whether dedupe_tabs has run

urlVars == <<parts, url, canon, recanon, variant, vkind, vcanon, upc>>

mainVars == <<args, tabs, primary_map, duplicates, primary_tabs, similarity_matrix,
              edges, groups_primary, tab_to_group_primary, groups, pc>>

groupVars == <<bg_tabs, bg_matrix, bg_opts, bg_mutual, bg_fallback, gpc>>

scoreVars == <<sc_tabs, sc_opts, sc_matrix, sc_reverse, sc_edges, spc>>

hashVars == <<sh_tokens, sh_shuffled, sh_value, sh_shuffled_value, hpc>>

dedupeVars == <<dd_in, dd_threshold, dd_out, dpc>>

unitVars == <<scoreVars, hashVars, dedupeVars>>

vars == <<urlVars, mainVars, groupVars, unitVars>>


(***************************************************************************)
(* Values.  An optional value is None or Some(x).  A fingerprint is the    *)
(* set of the positions (0..63) of its one-bits.  A score s stands for the *)
(* float s / Scale, which is exact for the scores that occur here.         *)
(***************************************************************************)
None == <<>>

Some(x) == <<x>>

\* Denominators of the scores: quarters, thirds and 25ths.
Scale == 4 * 3 * 25

\* The value of duplicate_of for a tab that is not a duplicate (None).
NoId == 0 - 1

\* The positions 0..n-1 of a Python list held as a function.
Size(f) == Cardinality(DOMAIN f)

Min(S) == CHOOSE x \in S : \A y \in S : x <= y

(***************************************************************************)
(* Union-find, as nested in dedupe_tabs and (identically) in build_groups. *)
(***************************************************************************)
RECURSIVE find(_, _)
\* find(x) with its path halving: the root and the parent list afterwards.
find(parent, x) ==
  IF parent[x] = x THEN [root |-> x, parent |-> parent]
  ELSE LET halved == [parent EXCEPT ![x] = parent[parent[x]]]
       IN  find(halved, halved[x])

\* union(a, b): the root of b is hung under the root of a.
union(parent, a, b) ==
  LET fa == find(parent, a)
      fb == find(fa.parent, b)
  IN  IF fa.root # fb.root
      THEN [fb.parent EXCEPT ![fb.root] = fa.root]
      ELSE fb.parent

\* The root of x, leaving the parent list alone.
Root(parent, x) == find(parent, x).root

(***************************************************************************)
(* Near-duplicate resolver.                                                *)
(***************************************************************************)
\* (a ^ b).bit_count()
hamming_distance(a, b) == Cardinality((a \ b) \cup (b \ a))

RECURSIVE CanonicalPhase(_, _, _, _)
RECURSIVE CanonicalStep(_, _, _, _, _)
\* The body of the first loop of dedupe_tabs for the tab at position idx,
\* whose canonical URL has been worked out.
CanonicalStep(ts, idx, parent, canonical_map, canonical) ==
  IF canonical = <<>>
  THEN CanonicalPhase(ts, idx + 1, parent, canonical_map)
  ELSE IF canonical \in DOMAIN canonical_map
  THEN CanonicalPhase([ts EXCEPT ![idx].canonical_url = canonical], idx + 1,
                      union(parent, idx, canonical_map[canonical]),
                      canonical_map)
  ELSE CanonicalPhase([ts EXCEPT ![idx].canonical_url = canonical], idx + 1,
                      parent, (canonical :> idx) @@ canonical_map)

\* First loop of dedupe_tabs, from position idx on: tabs with the same
\* canonical_url are unioned.  canonical_map is held as a function from the
\* canonical URLs seen so far to the position that first had each.
CanonicalPhase(ts, idx, parent, canonical_map) ==
  IF idx >= Size(ts) THEN [tabs |-> ts, parent |-> parent]
  ELSE CanonicalStep(ts, idx, parent, canonical_map,
                     IF ts[idx].canonical_url # <<>> THEN ts[idx].canonical_url
                     ELSE canonicalize_url(ts[idx].url))

RECURSIVE FingerprintPhaseAnyDomain(_, _, _, _, _)
\* As FingerprintPhase, were the domains of the two tabs not compared.
FingerprintPhaseAnyDomain(ts, i, j, parent, hamming_threshold) ==
  IF i >= Size(ts) THEN parent
  ELSE IF j >= Size(ts) \/ ts[i].simhash = None
  THEN FingerprintPhaseAnyDomain(ts, i + 1, i + 2, parent, hamming_threshold)
  ELSE IF /\ ts[j].simhash # None
          /\ hamming_distance(ts[i].simhash[1], ts[j].simhash[1]) <= hamming_threshold
  THEN FingerprintPhaseAnyDomain(ts, i, j + 1, union(parent, i, j), hamming_threshold)
  ELSE FingerprintPhaseAnyDomain(ts, i, j + 1, parent, hamming_threshold)

RECURSIVE FingerprintPhase(_, _, _, _, _)
\* Second loop of dedupe_tabs, from the pair (i, j) on: tabs of one non-empty
\* domain whose fingerprints are within the threshold are unioned.
FingerprintPhase(ts, i, j, parent, hamming_threshold) ==
  IF i >= Size(ts) THEN parent
  ELSE IF j >= Size(ts) \/ ts[i].simhash = None
  THEN FingerprintPhase(ts, i + 1, i + 2, parent, hamming_threshold)
  ELSE IF /\ ts[j].simhash # None
          /\ ts[i].domain # <<>>
          /\ ts[i].domain = ts[j].domain
          /\ hamming_distance(ts[i].simhash[1], ts[j].simhash[1]) <= hamming_threshold
  THEN FingerprintPhase(ts, i, j + 1, union(parent, i, j), hamming_threshold)
  ELSE FingerprintPhase(ts, i, j + 1, parent, hamming_threshold)

\* The positions in the same union-find partition as idx.
Cluster(parent, idx) == {k \in DOMAIN parent : Root(parent, k) = Root(parent, idx)}

\* As PrimaryOf, were the primary the union-find root of the partition.
PrimaryOfRoot(parent, idx) == Root(parent, idx)

\* As PrimaryOf, were the primary the union-find parent of the tab.
PrimaryOfParent(parent, idx) == parent[idx]

\* As PrimaryOf, were the primary the last tab of the cluster.
PrimaryOfLast(parent, idx) ==
  CHOOSE k \in Cluster(parent, idx) : \A l \in Cluster(parent, idx) : l <= k

\* primary = min(indices)
PrimaryOf(parent, idx) == Min(Cluster(parent, idx))

\* The last loop of dedupe_tabs for the tab at position idx: a duplicate
\* gets duplicate_of and, when it has none, the primary's canonical_url; a
\* primary with duplicates gets their URLs as aliases.
MarkTab(ts, primary, idx) ==
  IF primary[idx] # idx
  THEN [ts[idx] EXCEPT !.duplicate_of = primary[idx],
                       !.canonical_url =
                          IF @ = <<>> THEN ts[primary[idx]].canonical_url ELSE @]
  ELSE [ts[idx] EXCEPT !.aliases =
          @ \cup {ts[d].url : d \in {e \in DOMAIN ts : /\ primary[e] = idx /\ e # idx
                                                      /\ ts[e].url # <<>>}}]

\* The result of dedupe_tabs from the position -> primary position mapping.
DedupeMarked(ts, primary) ==
  [ tabs        |-> [idx \in DOMAIN ts |-> MarkTab(ts, primary, idx)],
    primary_map |-> primary,
    duplicates  |-> Cardinality({idx \in DOMAIN ts : primary[idx] # idx}) ]

\* The groups of the union-find partition and their primaries.
DedupePartition(ts, parent) ==
  DedupeMarked(ts, [idx \in DOMAIN ts |-> PrimaryOf(parent, idx)])

\* The second loop of dedupe_tabs, after the first has given p1.
DedupeFingerprints(p1, hamming_threshold) ==
  DedupePartition(p1.tabs, FingerprintPhase(p1.tabs, 0, 1, p1.parent, hamming_threshold))

\* dedupe_tabs: the tabs with duplicate_of, aliases and canonical_url filled
\* in, the id -> primary mapping and the number of duplicates.
dedupe_tabs(ts, hamming_threshold) ==
  DedupeFingerprints(CanonicalPhase(ts, 0, [i \in DOMAIN ts |-> i], <<>>), hamming_threshold)

RECURSIVE AllIds(_, _)
\* As PrimaryIds, were the duplicates not filtered out.
AllIds(ts, idx) ==
  IF idx >= Size(ts) THEN <<>> ELSE <<ts[idx].id>> \o AllIds(ts, idx + 1)

RECURSIVE PrimaryIds(_, _)
\* primary_tabs = [t for t in tabs if t.get("duplicate_of") is None], as the
\* list of their ids from position idx on.
PrimaryIds(ts, idx) ==
  IF idx >= Size(ts) THEN <<>>
  ELSE (IF ts[idx].duplicate_of = NoId THEN <<ts[idx].id>> ELSE <<>>)
       \o PrimaryIds(ts, idx + 1)

\* A Python list (positions from 0) from a sequence (positions from 1).
ListOf(seq) == [i \in 0..(Len(seq) - 1) |-> seq[i + 1]]

(***************************************************************************)
(* Similarity scorer.                                                      *)
(***************************************************************************)
RECURSIVE Dot(_, _)
\* sum(x * y for x, y in zip(a, b))
Dot(a, b) ==
  IF a = <<>> \/ b = <<>> THEN 0 ELSE Head(a) * Head(b) + Dot(Tail(a), Tail(b))

\* math.sqrt on the sums of squares that occur (perfect squares).
Sqrt(n) == CHOOSE r \in 0..n : r * r <= n /\ (r + 1) * (r + 1) > n

\* cosine_similarity of two optional embeddings, scaled.
cosine_similarity(a, b) ==
  IF a = None \/ b = None THEN 0
  ELSE IF a[1] = <<>> \/ b[1] = <<>> THEN 0
  ELSE IF Len(a[1]) # Len(b[1]) THEN 0
  ELSE LET dot == Dot(a[1], b[1])
           norm_a == Sqrt(Dot(a[1], a[1]))
           norm_b == Sqrt(Dot(b[1], b[1]))
       IN  IF norm_a = 0 \/ norm_b = 0 THEN 0
           ELSE (dot * Scale) \div (norm_a * norm_b)

\* jaccard of two keyword lists (held as sets), scaled.
jaccard(a, b) ==
  IF a = {} \/ b = {} THEN 0
  ELSE (Cardinality(a \cap b) * Scale) \div Cardinality(a \cup b)

\* As similarity_score, were the bonus given for the first tab's domain alone.
similarity_score_one_sided(ta, tb, domain_bonus) ==
  LET cosine == cosine_similarity(ta.embedding, tb.embedding)
      similarity == IF cosine = 0 THEN jaccard(ta.keywords, tb.keywords) ELSE cosine
  IN  IF ta.domain # <<>> THEN similarity + domain_bonus ELSE similarity

\* As similarity_score, were the sum capped at 1.0.
similarity_score_capped(ta, tb, domain_bonus) ==
  LET cosine == cosine_similarity(ta.embedding, tb.embedding)
      similarity == IF cosine = 0 THEN jaccard(ta.keywords, tb.keywords) ELSE cosine
      total == IF ta.domain # <<>> /\ ta.domain = tb.domain
               THEN similarity + domain_bonus ELSE similarity
  IN  IF total > Scale THEN Scale ELSE total

similarity_score(ta, tb, domain_bonus) ==
  LET cosine == cosine_similarity(ta.embedding, tb.embedding)
      similarity == IF cosine = 0 THEN jaccard(ta.keywords, tb.keywords) ELSE cosine
  IN  IF ta.domain # <<>> /\ ta.domain = tb.domain
      THEN similarity + domain_bonus
      ELSE similarity

\* build_similarity_matrix over a list of tab records: the score of each pair
\* i < j is computed once and stored in both cells; the diagonal stays 0.
build_similarity_matrix(ptabs, domain_bonus) ==
  [i \in DOMAIN ptabs |->
    [j \in DOMAIN ptabs |->
      IF i = j THEN 0
      ELSE IF i < j THEN similarity_score(ptabs[i], ptabs[j], domain_bonus)
      ELSE similarity_score(ptabs[j], ptabs[i], domain_bonus)]]

(***************************************************************************)
(* Edges.                                                                  *)
(***************************************************************************)
\* round(weight, 3) as a number of thousandths (no score that occurs lies
\* half way between two thousandths).
Round3(weight) == (weight * 2000 + Scale) \div (2 * Scale)

RECURSIVE EdgesFrom(_, _, _, _, _)
\* The loops of build_edges from the pair (i, j) on.
EdgesFrom(ptabs, matrix, threshold, i, j) ==
  IF i >= Size(ptabs) THEN <<>>
  ELSE IF j >= Size(ptabs) THEN EdgesFrom(ptabs, matrix, threshold, i + 1, i + 2)
  ELSE (IF matrix[i][j] >= threshold
        THEN << [ source |-> ptabs[i].id,
                  target |-> ptabs[j].id,
                  weight |-> Round3(matrix[i][j]),
                  reason |-> IF ptabs[i].domain = ptabs[j].domain
                             THEN "similarity+domain" ELSE "similarity" ] >>
        ELSE <<>>)
       \o EdgesFrom(ptabs, matrix, threshold, i, j + 1)

build_edges(ptabs, matrix, threshold) == EdgesFrom(ptabs, matrix, threshold, 0, 1)

(***************************************************************************)
(* Cluster builder.                                                        *)
(***************************************************************************)
Max(a, b) == IF a >= b THEN a ELSE b

RECURSIVE DomainOrder(_, _, _)
\* The keys of domain_map in insertion order: the non-empty domains in order
\* of first appearance, from position idx on.
DomainOrder(ptabs, idx, seen) ==
  IF idx >= Size(ptabs) THEN <<>>
  ELSE LET domain == ptabs[idx].domain
       IN  IF domain = <<>> \/ domain \in seen
           THEN DomainOrder(ptabs, idx + 1, seen)
           ELSE <<domain>> \o DomainOrder(ptabs, idx + 1, seen \cup {domain})

RECURSIVE UnionEach(_, _, _)
\* for idx in indices[1:]: union(root, idx)
UnionEach(parent, root, rest) ==
  IF rest = {} THEN parent
  ELSE UnionEach(union(parent, root, Min(rest)), root, rest \ {Min(rest)})

RECURSIVE DomainPhaseStrict(_, _, _, _)
\* As DomainPhase, were a domain grouped only above the minimum.
DomainPhaseStrict(ptabs, domains, parent, domain_group_min) ==
  IF domains = <<>> THEN parent
  ELSE LET indices == {idx \in DOMAIN ptabs : ptabs[idx].domain = Head(domains)}
       IN  DomainPhaseStrict(ptabs, Tail(domains),
                             IF Cardinality(indices) > Max(2, domain_group_min)
                             THEN UnionEach(parent, Min(indices), indices \ {Min(indices)})
                             ELSE parent,
                             domain_group_min)

RECURSIVE DomainPhase(_, _, _, _)
\* The domain-grouping loop of build_groups over the remaining domains.
DomainPhase(ptabs, domains, parent, domain_group_min) ==
  IF domains = <<>> THEN parent
  ELSE LET indices == {idx \in DOMAIN ptabs : ptabs[idx].domain = Head(domains)}
       IN  DomainPhase(ptabs, Tail(domains),
                       IF Cardinality(indices) >= Max(2, domain_group_min)
                       THEN UnionEach(parent, Min(indices), indices \ {Min(indices)})
                       ELSE parent,
                       domain_group_min)

\* The elements of a list.
Elements(seq) == {seq[k] : k \in 1..Len(seq)}

(***************************************************************************)
(* The set of integers of CPython, whose iteration order is the order of   *)
(* its hash table: neighbors[i] is a set, and build_groups iterates it.    *)
(* hash(j) = j for the positions held here.                                *)
(***************************************************************************)
\* LINEAR_PROBES and PERTURB_SHIFT of setobject.c, and PySet_MINSIZE
LinearProbes == 9

PerturbShift == 5

SetMinSize == 8

RECURSIVE SetSlot(_, _, _, _)
\* The probing of set_add_entry and set_insert_clean for a key not in the
\* table: the first unused entry among table[i..i+LINEAR_PROBES] when that run
\* fits in the table and table[i] alone when not, else the next i, which is
\* (i * 5 + 1 + perturb) & mask after perturb >>= PERTURB_SHIFT.
SetSlot(table, mask, i, perturb) ==
  IF \E k \in i..(IF i + LinearProbes <= mask THEN i + LinearProbes ELSE i) : table[k] = NoId
  THEN Min({k \in i..(IF i + LinearProbes <= mask THEN i + LinearProbes ELSE i) :
              table[k] = NoId})
  ELSE SetSlot(table, mask,
               (i * 5 + 1 + (perturb \div (2 ^ PerturbShift))) % (mask + 1),
               perturb \div (2 ^ PerturbShift))

\* The key is written to its entry of a table that does not hold it.
SetInsert(table, mask, key) ==
  [table EXCEPT ![SetSlot(table, mask, key % (mask + 1), key)] = key]

\* The keys of a table in the order of its entries: the order in which the
\* set is iterated.
SetIteration(table) ==
  LET used == {k \in DOMAIN table : table[k] # NoId}
  IN  [p \in 1..Cardinality(used) |->
         table[CHOOSE k \in used : Cardinality({u \in used : u < k}) = p - 1]]

RECURSIVE SetInsertAll(_, _, _)
\* set_table_resize: the keys are written to the new table in the order of
\* the old one.
SetInsertAll(table, mask, keys) ==
  IF keys = <<>> THEN table
  ELSE SetInsertAll(SetInsert(table, mask, Head(keys)), mask, Tail(keys))

RECURSIVE SetNewSize(_, _)
\* while newsize <= minused: newsize <<= 1
SetNewSize(newsize, minused) ==
  IF newsize <= minused THEN SetNewSize(newsize * 2, minused) ELSE newsize

\* set_table_resize(so, minused): a table of the new size with the same keys
SetResized(table, newsize) ==
  SetInsertAll([k \in 0..(newsize - 1) |-> NoId], newsize - 1, SetIteration(table))

\* The end of set_add_entry: the table is resized to hold four times its
\* keys when the filled entries reach three fifths of the mask.
SetGrown(table, fill) ==
  IF fill * 5 < (Size(table) - 1) * 3 THEN table
  ELSE SetResized(table, SetNewSize(SetMinSize, fill * 4))

RECURSIVE SetAddAll(_, _, _)
\* set(keys) for a list of distinct keys: each is added in list order
SetAddAll(table, fill, keys) ==
  IF keys = <<>> THEN table
  ELSE SetAddAll(SetGrown(SetInsert(table, Size(table) - 1, Head(keys)), fill + 1),
                 fill + 1, Tail(keys))

\* list(set(keys)): the order in which the set made of a list of distinct
\* keys is iterated
SetOrder(keys) == SetIteration(SetAddAll([k \in 0..(SetMinSize - 1) |-> NoId], 0, keys))

\* scored, sorted: the other positions by descending score, a stable sort, so
\* that equal scores stay in ascending position
Scored(matrix, i) ==
  [p \in 1..(Size(matrix) - 1) |->
     CHOOSE j \in DOMAIN matrix \ {i} :
       Cardinality({k \in DOMAIN matrix \ {i} :
                      \/ matrix[i][k] > matrix[i][j]
                      \/ (matrix[i][k] = matrix[i][j] /\ k < j)}) = p - 1]

RECURSIVE Filtered(_, _)
\* filtered: the positions of the sorted list that are neighbours, in list
\* order.
Filtered(list, members) ==
  IF list = <<>> THEN <<>>
  ELSE (IF Head(list) \in members THEN <<Head(list)>> ELSE <<>>) \o Filtered(Tail(list), members)

\* As Neighbors, were the scores below the threshold not dropped.
NeighborsUnfiltered(matrix, threshold, knn_k, i) ==
  LET others == {j \in DOMAIN matrix : j # i}
      before(j) == {k \in others : \/ matrix[i][k] > matrix[i][j]
                                   \/ (matrix[i][k] = matrix[i][j] /\ k < j)}
  IN  IF knn_k > 0 THEN {j \in others : Cardinality(before(j)) < knn_k}
      ELSE others

\* As Neighbors, were the first knn_k kept whatever knn_k is.
NeighborsCutAlways(matrix, threshold, knn_k, i) ==
  LET filtered == {j \in DOMAIN matrix : j # i /\ matrix[i][j] >= threshold}
      before(j) == {k \in filtered : \/ matrix[i][k] > matrix[i][j]
                                     \/ (matrix[i][k] = matrix[i][j] /\ k < j)}
  IN  {j \in filtered : Cardinality(before(j)) < knn_k}

\* neighbors[i]: the others are sorted by descending score (a stable sort, so
\* equal scores stay in ascending position), those below the threshold are
\* dropped and, when knn_k > 0, the first knn_k are kept.
Neighbors(matrix, threshold, knn_k, i) ==
  LET filtered == {j \in DOMAIN matrix : j # i /\ matrix[i][j] >= threshold}
      before(j) == {k \in filtered : \/ matrix[i][k] > matrix[i][j]
                                     \/ (matrix[i][k] = matrix[i][j] /\ k < j)}
  IN  IF knn_k > 0 THEN {j \in filtered : Cardinality(before(j)) < knn_k}
      ELSE filtered

RECURSIVE OneSidedPhase(_, _, _, _)
\* As MutualPhase, were a pair unioned when j is a neighbour of i alone.
OneSidedPhase(neighbors, i, k, parent) ==
  IF i >= Size(parent) THEN parent
  ELSE IF k > Len(neighbors[i]) THEN OneSidedPhase(neighbors, i + 1, 1, parent)
  ELSE OneSidedPhase(neighbors, i, k + 1, union(parent, i, neighbors[i][k]))

RECURSIVE MutualPhase(_, _, _, _)
\* for i: for j in neighbors[i]: if i in neighbors[j]: union(i, j)
\* neighbors[i] is given as the list of its members in iteration order, and
\* k is the place in that list.
MutualPhase(neighbors, i, k, parent) ==
  IF i >= Size(parent) THEN parent
  ELSE IF k > Len(neighbors[i]) THEN MutualPhase(neighbors, i + 1, 1, parent)
  ELSE IF i \in Elements(neighbors[neighbors[i][k]])
  THEN MutualPhase(neighbors, i, k + 1, union(parent, i, neighbors[i][k]))
  ELSE MutualPhase(neighbors, i, k + 1, parent)

RECURSIVE ThresholdPhase(_, _, _, _, _)
\* for i: for j > i: if similarity_matrix[i][j] >= threshold: union(i, j)
ThresholdPhase(matrix, threshold, i, j, parent) ==
  IF i >= Size(parent) THEN parent
  ELSE IF j >= Size(matrix) THEN ThresholdPhase(matrix, threshold, i + 1, i + 2, parent)
  ELSE IF matrix[i][j] >= threshold
  THEN ThresholdPhase(matrix, threshold, i, j + 1, union(parent, i, j))
  ELSE ThresholdPhase(matrix, threshold, i, j + 1, parent)

\* The parent list of build_groups after its union phases.
GroupParent(ptabs, matrix, threshold, domain_group, domain_group_min, mutual_knn, knn_k) ==
  LET parent0 == [i \in DOMAIN ptabs |-> i]
      parent1 == IF domain_group
                 THEN DomainPhase(ptabs, DomainOrder(ptabs, 0, {}), parent0, domain_group_min)
                 ELSE parent0
  IN  IF mutual_knn
      THEN MutualPhase([i \in DOMAIN ptabs |->
                          SetOrder(Filtered(Scored(matrix, i),
                                        Neighbors(matrix, threshold, knn_k, i)))],
                       0, 1, parent1)
      ELSE ThresholdPhase(matrix, threshold, 0, 1, parent1)

RECURSIVE RootOrderDownwards(_, _, _)
\* As RootOrder, were the positions scanned downwards from the last.
RootOrderDownwards(parent, idx, seen) ==
  IF idx >= Size(parent) THEN <<>>
  ELSE LET root == Root(parent, Size(parent) - 1 - idx)
       IN  IF root \in seen THEN RootOrderDownwards(parent, idx + 1, seen)
           ELSE <<root>> \o RootOrderDownwards(parent, idx + 1, seen \cup {root})

RECURSIVE RootOrder(_, _, _)
\* The keys of groups_map in insertion order: the roots in order of first
\* discovery when the positions are scanned upwards from idx.
RootOrder(parent, idx, seen) ==
  IF idx >= Size(parent) THEN <<>>
  ELSE LET root == Root(parent, idx)
       IN  IF root \in seen THEN RootOrder(parent, idx + 1, seen)
           ELSE <<root>> \o RootOrder(parent, idx + 1, seen \cup {root})

RECURSIVE MemberIds(_, _, _, _)
\* The ids of the tabs whose root is the given one, in position order.
MemberIds(ptabs, parent, root, idx) ==
  IF idx >= Size(ptabs) THEN <<>>
  ELSE (IF Root(parent, idx) = root THEN <<ptabs[idx].id>> ELSE <<>>)
       \o MemberIds(ptabs, parent, root, idx + 1)

\* The end of build_groups: the groups of the union-find partition, numbered
\* in the order of roots, and tab_to_group.
GroupsOfRoots(ptabs, parent, roots) ==
  [ groups |-> [gid \in 0..(Len(roots) - 1) |->
                  LET tab_ids == MemberIds(ptabs, parent, roots[gid + 1], 0)
                  IN  [id |-> gid, tab_ids |-> tab_ids, size |-> Len(tab_ids)]],
    tab_to_group |-> [tid \in {ptabs[idx].id : idx \in DOMAIN ptabs} |->
                        CHOOSE gid \in 0..(Len(roots) - 1) :
                          roots[gid + 1] =
                            Root(parent, CHOOSE idx \in DOMAIN ptabs : ptabs[idx].id = tid)] ]

GroupsOf(ptabs, parent) == GroupsOfRoots(ptabs, parent, RootOrder(parent, 0, {}))

\* As build_groups, were an empty group written when there is no tab.
build_groups_never_empty(ptabs, matrix, threshold, domain_group, domain_group_min, mutual_knn, knn_k) ==
  IF Size(ptabs) = 0
  THEN [ groups |-> [gid \in {0} |-> [id |-> 0, tab_ids |-> <<>>, size |-> 0]],
         tab_to_group |-> <<>> ]
  ELSE GroupsOf(ptabs, GroupParent(ptabs, matrix, threshold, domain_group,
                                   domain_group_min, mutual_knn, knn_k))

\* build_groups: the list of groups (id, tab_ids, size) and tab_to_group.
build_groups(ptabs, matrix, threshold, domain_group, domain_group_min, mutual_knn, knn_k) ==
  GroupsOf(ptabs, GroupParent(ptabs, matrix, threshold, domain_group,
                              domain_group_min, mutual_knn, knn_k))

(***************************************************************************)
(* Graph assembler: the end of main().                                     *)
(***************************************************************************)
\* As GroupIdOf, were the group looked up under the tab's own id.
GroupIdOfSelf(pmap, to_group, id) ==
  IF id \in DOMAIN to_group THEN to_group[id] ELSE 0 - 1

\* tab_to_group_primary.get(primary_map.get(id, id), -1)
GroupIdOf(pmap, to_group, id) ==
  LET primary_id == IF id \in DOMAIN pmap THEN pmap[id] ELSE id
  IN  IF primary_id \in DOMAIN to_group THEN to_group[primary_id] ELSE 0 - 1

RECURSIVE IdsOfGroupPrimaries(_, _, _, _, _)
\* As IdsOfGroup, were only the primaries appended to their group.
IdsOfGroupPrimaries(ts, pmap, to_group, gid, idx) ==
  IF idx >= Size(ts) THEN <<>>
  ELSE (IF ts[idx].id \in DOMAIN to_group /\ to_group[ts[idx].id] = gid
        THEN <<ts[idx].id>> ELSE <<>>)
       \o IdsOfGroupPrimaries(ts, pmap, to_group, gid, idx + 1)

RECURSIVE IdsOfGroup(_, _, _, _, _)
\* groups_map[gid] after the loop over the tabs, from position idx on.
IdsOfGroup(ts, pmap, to_group, gid, idx) ==
  IF idx >= Size(ts) THEN <<>>
  ELSE (IF GroupIdOf(pmap, to_group, ts[idx].id) = gid THEN <<ts[idx].id>> ELSE <<>>)
       \o IdsOfGroup(ts, pmap, to_group, gid, idx + 1)

(***************************************************************************)
(* Group labels: compute_idf, top_tfidf_terms and label_group.  Weights   *)
(* are in millionths.                                                      *)
(***************************************************************************)
Micro == 1000000

\* math.log(k) in millionths, for the counts that arise.
LnMicro(k) ==
  CASE k = 1 -> 0
    [] k = 2 -> 693147
    [] k = 3 -> 1098612
    [] k = 4 -> 1386294
    [] k = 5 -> 1609438
    [] k = 6 -> 1791759

\* df[token]: the number of documents that hold the token.
DocFrequency(docs_tokens, token) ==
  Cardinality({d \in DOMAIN docs_tokens : token \in Elements(docs_tokens[d])})

\* compute_idf: idf[token] = log((1 + doc_count) / (1 + count)) + 1.0
compute_idf(docs_tokens) ==
  [token \in UNION {Elements(docs_tokens[d]) : d \in DOMAIN docs_tokens} |->
     LnMicro(1 + Size(docs_tokens)) - LnMicro(1 + DocFrequency(docs_tokens, token)) + Micro]

\* Counter(items)[item]
CountOf(items, item) == Cardinality({k \in 1..Len(items) : items[k] = item})

RECURSIVE FirstSeen(_, _)
\* The keys of Counter(items) in insertion order: the items in order of
\* first appearance, those of seen left out.
FirstSeen(items, seen) ==
  IF items = <<>> THEN <<>>
  ELSE IF Head(items) \in seen THEN FirstSeen(Tail(items), seen)
  ELSE <<Head(items)>> \o FirstSeen(Tail(items), seen \cup {Head(items)})

\* count * idf.get(token, 0.0)
TermScore(tokens, idf, token) ==
  CountOf(tokens, token) * (IF token \in DOMAIN idf THEN idf[token] ELSE 0)

RECURSIVE InsertTerm(_, _, _, _)
\* The stable descending sort of top_tfidf_terms, one insertion: the token
\* goes behind every term that scores at least as much.
InsertTerm(sorted, token, tokens, idf) ==
  IF sorted = <<>> THEN <<token>>
  ELSE IF TermScore(tokens, idf, Head(sorted)) >= TermScore(tokens, idf, token)
  THEN <<Head(sorted)>> \o InsertTerm(Tail(sorted), token, tokens, idf)
  ELSE <<token>> \o sorted

RECURSIVE SortTerms(_, _, _, _)
SortTerms(sorted, terms, tokens, idf) ==
  IF terms = <<>> THEN sorted
  ELSE SortTerms(InsertTerm(sorted, Head(terms), tokens, idf), Tail(terms), tokens, idf)

\* scored[:max_terms]
FirstOf(seq, max_terms) == SubSeq(seq, 1, IF Len(seq) < max_terms THEN Len(seq) ELSE max_terms)

top_tfidf_terms(tokens, idf, max_terms) ==
  FirstOf(SortTerms(<<>>, FirstSeen(tokens, {}), tokens, idf), max_terms)

RECURSIVE DomainsOf(_)
\* domains = [t.get("domain") for t in group_tabs if t.get("domain")]
DomainsOf(group_tabs) ==
  IF group_tabs = <<>> THEN <<>>
  ELSE (IF Head(group_tabs).domain # <<>> THEN <<Head(group_tabs).domain>> ELSE <<>>)
       \o DomainsOf(Tail(group_tabs))

RECURSIVE MostCommonOf(_, _, _)
\* counts.most_common(1)[0][0]: the first key, in insertion order, of the
\* largest count; best is the key found so far.
MostCommonOf(keys, items, best) ==
  IF keys = <<>> THEN best
  ELSE IF CountOf(items, Head(keys)) > CountOf(items, best)
  THEN MostCommonOf(Tail(keys), items, Head(keys))
  ELSE MostCommonOf(Tail(keys), items, best)

MostCommon(items) == MostCommonOf(FirstSeen(items, {}), items, Head(items))

RECURSIVE TokensOf(_)
\* The tokens of the tabs, one list after the other.
TokensOf(group_tabs) ==
  IF group_tabs = <<>> THEN <<>>
  ELSE Head(group_tabs).tokens \o TokensOf(Tail(group_tabs))

\* The end of label_group: the top terms joined, or "group".
TermsLabel(top_terms) ==
  IF top_terms # <<>> THEN Join(top_terms, <<" ","/"," ">>) ELSE <<"g","r","o","u","p">>

\* The domain test of label_group, given the list of non-empty domains.
DomainLabel(group_tabs, domains, idf) ==
  IF domains # <<>> /\ CountOf(domains, MostCommon(domains)) * 100
                         >= 55 * Max(1, Len(group_tabs))
  THEN MostCommon(domains)
  ELSE TermsLabel(top_tfidf_terms(TokensOf(group_tabs), idf, 3))

label_group(group_tabs, idf) == DomainLabel(group_tabs, DomainsOf(group_tabs), idf)

RECURSIVE MembersOf(_, _)
\* As PrimaryMembersOf, were the duplicates left in.
MembersOf(ts, tab_ids) ==
  IF tab_ids = <<>> THEN <<>>
  ELSE <<ts[Head(tab_ids)]>> \o MembersOf(ts, Tail(tab_ids))

RECURSIVE PrimaryMembersOf(_, _)
\* group_primary_tabs: the records of the tabs of tab_ids that are no
\* duplicates.
PrimaryMembersOf(ts, tab_ids) ==
  IF tab_ids = <<>> THEN <<>>
  ELSE (IF ts[Head(tab_ids)].duplicate_of = NoId THEN <<ts[Head(tab_ids)]>> ELSE <<>>)
       \o PrimaryMembersOf(ts, Tail(tab_ids))

\* One entry of the final group list.
GroupEntry(gid, tab_ids, label) ==
  [id |-> gid, label |-> label, tab_ids |-> tab_ids, size |-> Len(tab_ids)]

\* tab.pop("tokens") and, embeddings not being stored, tab.pop("embedding")
Popped(tab) == [f \in DOMAIN tab \ {"tokens", "embedding"} |-> tab[f]]
(***************************************************************************)
(* Fingerprints.                                                           *)
(***************************************************************************)
\* int.from_bytes(hashlib.md5(token.encode("utf-8")).digest()[:8], "big") as
\* the set of the positions of its one-bits, for the tokens met here.
TokenHash(token) ==
  CASE token = <<"r","u","s","t">> -> {2, 3, 4, 6, 7, 8, 10, 12, 14, 18, 20, 21, 24, 25, 26, 31, 36, 37,
         41, 42, 43, 45, 48, 55, 57, 60, 61, 62}
    [] token = <<"b","o","r","r","o","w">> -> {0, 4, 6, 7, 8, 10, 12, 14, 16, 17, 18, 19, 20, 25, 31, 35, 36,
         37, 38, 41, 46, 47, 49, 50, 51, 52, 54, 59, 62}
    [] token = <<"c","h","e","c","k","e","r">> -> {1, 2, 5, 8, 9, 11, 14, 18, 20, 23, 24, 26, 28, 29, 30, 34, 35,
         36, 38, 39, 41, 42, 43, 48, 49, 50, 51, 54, 55, 56, 57, 59, 60, 63}
    [] token = <<"p","a","s","t","a">> -> {4, 7, 9, 10, 12, 13, 15, 17, 22, 24, 27, 28, 29, 30, 31, 34, 35,
         36, 37, 39, 40, 42, 44, 45, 49, 52, 56, 57, 58, 63}
    [] token = <<"c","o","o","k","i","n","g">> -> {0, 1, 4, 5, 6, 7, 13, 15, 17, 20, 22, 23, 24, 25, 27, 28, 31,
         33, 35, 36, 37, 40, 41, 42, 43, 44, 48, 49, 51, 52, 55, 56, 57, 60, 61, 62}

RECURSIVE Tally(_, _)
\* The loop over the tokens: vector[i] goes up by one for a token whose hash
\* has bit i set and down by one otherwise.
Tally(tokens, vector) ==
  IF tokens = <<>> THEN vector
  ELSE Tally(Tail(tokens),
             [i \in 0..63 |-> IF i \in TokenHash(Head(tokens))
                              THEN vector[i] + 1 ELSE vector[i] - 1])

\* As simhash_from_tokens, were a bit with as many tokens for as against it
\* given the value it has in the hash of the last token.
simhash_last_breaks_ties(tokens) ==
  IF tokens = <<>> THEN None
  ELSE Some({i \in 0..63 :
               \/ Tally(tokens, [k \in 0..63 |-> 0])[i] > 0
               \/ /\ Tally(tokens, [k \in 0..63 |-> 0])[i] = 0
                  /\ i \in TokenHash(tokens[Len(tokens)])})

\* simhash_from_tokens: None for no tokens, else the bits whose tally is
\* above 0.
simhash_from_tokens(tokens) ==
  IF tokens = <<>> THEN None
  ELSE Some({i \in 0..63 : Tally(tokens, [k \in 0..63 |-> 0])[i] > 0})

(***************************************************************************)
(* The words of a text.                                                    *)
(***************************************************************************)
STOPWORDS ==
  { <<"a">>, <<"a","b","o","u","t">>, <<"a","b","o","v","e">>, <<"a","f","t","e","r">>, <<"a","g","a","i","n">>,
    <<"a","g","a","i","n","s","t">>, <<"a","l","l">>, <<"a","m">>, <<"a","n">>, <<"a","n","d">>,
    <<"a","n","y">>, <<"a","r","e">>, <<"a","s">>, <<"a","t">>, <<"b","e">>, <<"b","e","c","a","u","s","e">>,
    <<"b","e","e","n">>, <<"b","e","f","o","r","e">>, <<"b","e","i","n","g">>, <<"b","e","l","o","w">>, <<"b","e","t","w","e","e","n">>,
    <<"b","o","t","h">>, <<"b","u","t">>, <<"b","y">>, <<"c","a","n">>, <<"d","i","d">>, <<"d","o">>,
    <<"d","o","e","s">>, <<"d","o","i","n","g">>, <<"d","o","w","n">>, <<"d","u","r","i","n","g">>, <<"e","a","c","h">>,
    <<"f","e","w">>, <<"f","o","r">>, <<"f","r","o","m">>, <<"f","u","r","t","h","e","r">>, <<"h","a","d">>,
    <<"h","a","s">>, <<"h","a","v","e">>, <<"h","a","v","i","n","g">>, <<"h","e">>, <<"h","e","r">>,
    <<"h","e","r","e">>, <<"h","e","r","s">>, <<"h","e","r","s","e","l","f">>, <<"h","i","m">>, <<"h","i","m","s","e","l","f">>,
    <<"h","i","s">>, <<"h","o","w">>, <<"i">>, <<"i","f">>, <<"i","n">>, <<"i","n","t","o">>,
    <<"i","s">>, <<"i","t">>, <<"i","t","s">>, <<"i","t","s","e","l","f">>, <<"j","u","s","t">>, <<"m","e">>,
    <<"m","o","r","e">>, <<"m","o","s","t">>, <<"m","y">>, <<"m","y","s","e","l","f">>, <<"n","o">>,
    <<"n","o","r">>, <<"n","o","t">>, <<"n","o","w">>, <<"o","f">>, <<"o","f","f">>, <<"o","n">>,
    <<"o","n","c","e">>, <<"o","n","l","y">>, <<"o","r">>, <<"o","t","h","e","r">>, <<"o","u","r">>,
    <<"o","u","r","s">>, <<"o","u","r","s","e","l","v","e","s">>, <<"o","u","t">>, <<"o","v","e","r">>, <<"o","w","n">>,
    <<"s","a","m","e">>, <<"s","h","e">>, <<"s","h","o","u","l","d">>, <<"s","o">>, <<"s","o","m","e">>,
    <<"s","u","c","h">>, <<"t","h","a","n">>, <<"t","h","a","t">>, <<"t","h","e">>, <<"t","h","e","i","r">>,
    <<"t","h","e","i","r","s">>, <<"t","h","e","m">>, <<"t","h","e","m","s","e","l","v","e","s">>, <<"t","h","e","n">>,
    <<"t","h","e","r","e">>, <<"t","h","e","s","e">>, <<"t","h","e","y">>, <<"t","h","i","s">>, <<"t","h","o","s","e">>,
    <<"t","h","r","o","u","g","h">>, <<"t","o">>, <<"t","o","o">>, <<"u","n","d","e","r">>, <<"u","n","t","i","l">>,
    <<"u","p">>, <<"v","e","r","y">>, <<"w","a","s">>, <<"w","e">>, <<"w","e","r","e">>, <<"w","h","a","t">>,
    <<"w","h","e","n">>, <<"w","h","e","r","e">>, <<"w","h","i","c","h">>, <<"w","h","i","l","e">>, <<"w","h","o">>,
    <<"w","h","o","m">>, <<"w","h","y">>, <<"w","i","t","h">>, <<"w","o","u","l","d">>, <<"y","o","u">>,
    <<"y","o","u","r">>, <<"y","o","u","r","s">>, <<"y","o","u","r","s","e","l","f">>, <<"y","o","u","r","s","e","l","v","e","s">> }

\* --keyword-count
KeywordCount == 8

RECURSIVE WordsOf(_, _)
\* re.sub(r"[^a-z0-9]+", " ", text).split() for a text in lower case; word is
\* the run of letters and digits read so far.
WordsOf(text, word) ==
  IF text = <<>> THEN (IF word = <<>> THEN <<>> ELSE <<word>>)
  ELSE IF IsLower(Head(text)) \/ IsDigit(Head(text))
  THEN WordsOf(Tail(text), Append(word, Head(text)))
  ELSE (IF word = <<>> THEN <<>> ELSE <<word>>) \o WordsOf(Tail(text), <<>>)

tokenize(text) ==
  SelectSeq(WordsOf(Lower(text), <<>>), LAMBDA t : Len(t) >= 3 /\ t \notin STOPWORDS)

RECURSIVE InsertCommon(_, _, _)
\* The stable descending sort of most_common, one insertion: the word goes
\* behind every word counted at least as often.
InsertCommon(sorted, word, tokens) ==
  IF sorted = <<>> THEN <<word>>
  ELSE IF CountOf(tokens, Head(sorted)) >= CountOf(tokens, word)
  THEN <<Head(sorted)>> \o InsertCommon(Tail(sorted), word, tokens)
  ELSE <<word>> \o sorted

RECURSIVE SortCommon(_, _, _)
SortCommon(sorted, words, tokens) ==
  IF words = <<>> THEN sorted
  ELSE SortCommon(InsertCommon(sorted, Head(words), tokens), Tail(words), tokens)

\* Counter(tokens).most_common(n)
most_common(tokens, n) == FirstOf(SortCommon(<<>>, FirstSeen(tokens, {}), tokens), n)

extract_keywords(text, max_keywords) == most_common(tokenize(text), max_keywords)

RECURSIVE Rstrip(_)
Rstrip(s) == IF s # <<>> /\ s[Len(s)] = " " THEN Rstrip(SubSeq(s, 1, Len(s) - 1)) ELSE s

\* str.strip(); within printable ASCII only " " is white space.
Strip(s) == Rstrip(Lstrip(s))

RECURSIVE SentencesOf(_, _)
\* re.split(r"(?<=[.!?])\s+", text): the text is cut at each run of spaces
\* behind ".", "!" or "?"; sentence is what was read since the last cut.
SentencesOf(text, sentence) ==
  IF text = <<>> THEN <<sentence>>
  ELSE IF Head(text) = " " /\ sentence # <<>> /\ sentence[Len(sentence)] \in {".", "!", "?"}
  THEN <<sentence>> \o SentencesOf(Lstrip(Tail(text)), <<>>)
  ELSE SentencesOf(Tail(text), Append(sentence, Head(text)))

RECURSIVE StripEach(_)
\* [s.strip() for s in sentences if s.strip()]
StripEach(sentences) ==
  IF sentences = <<>> THEN <<>>
  ELSE IF Strip(Head(sentences)) = <<>> THEN StripEach(Tail(sentences))
  ELSE <<Strip(Head(sentences))>> \o StripEach(Tail(sentences))

fallback_summary(text, max_sentences) ==
  IF text = <<>> THEN <<>>
  ELSE Join(FirstOf(StripEach(SentencesOf(text, <<>>)), max_sentences), <<" ">>)

(***************************************************************************)
(* Inputs of main(): the options and the loaded, enriched tabs.            *)
(***************************************************************************)
\* Largest number of tabs loaded.
MaxTabs == 3

\* argparse defaults
DedupeHamming == 3

DomainGroupMin == 2

KnnK == 6

EdgeThreshold == Scale \div 5

GroupThreshold == Scale \div 4

DomainBonus == Scale \div 4

DefaultArgs ==
  [ dedupe_hamming   |-> DedupeHamming,
    edge_threshold   |-> EdgeThreshold,
    group_threshold  |-> GroupThreshold,
    domain_bonus     |-> DomainBonus,
    no_domain_group  |-> FALSE,
    domain_group_min |-> DomainGroupMin,
    no_mutual_knn    |-> FALSE,
    knn_k            |-> KnnK ]

\* The command lines tried: the defaults, and grouping by similarity alone
\* with a mutual-KNN size of 1 or with the mutual-KNN filter off.
ArgChoices ==
  { DefaultArgs,
    [DefaultArgs EXCEPT !.no_domain_group = TRUE, !.knn_k = 1],
    [DefaultArgs EXCEPT !.no_domain_group = TRUE, !.no_mutual_knn = TRUE] }

\* URLs of the exported tabs; the last has a bracket that is not closed.
TabUrls ==
  { <<"h","t","t","p","s",":","/","/","a",".","c","o","m","/","x","?","u","t","m","_","s","o","u","r","c","e","=","y">>,
    <<"h","t","t","p","s",":","/","/","a",".","c","o","m","/","x">>,
    <<"h","t","t","p","s",":","/","/","w","w","w",".","a",".","c","o","m","/","y">>,
    <<"h","t","t","p","s",":","/","/","a",".","c","o","m","/","w">>,
    <<"h","t","t","p","s",":","/","/","b",".","c","o","m","/","z">>,
    <<"a","b","o","u","t",":","b","l","a","n","k">>,
    <<"h","t","t","p","s",":","/","/","[">> }

\* The record load_tabs builds for a URL.  The keys the enrichment loop and
\* dedupe_tabs add later are given the values that tab.get() has without
\* them.
NewTab(id, u) ==
  [ id            |-> id,
    url           |-> u,
    domain        |-> normalize_domain(u),
    canonical_url |-> canonicalize_url(u),
    summary       |-> <<>>,
    text_excerpt  |-> <<>>,
    keywords      |-> {},
    tokens        |-> <<>>,
    simhash       |-> None,
    embedding     |-> None,
    duplicate_of  |-> NoId,
    aliases       |-> {},
    group_id      |-> 0 - 1 ]

(***************************************************************************)
(* What the enrichment loop of main() meets outside the program: the pages *)
(* on the web, the summariser, the embedding service and the cache file.   *)
(* The tabs have no title, and the keywords of a tab are kept as the set   *)
(* of the list's members.  The options are the defaults: no --refresh, no  *)
(* --limit, embeddings on, and the cache written with the same embedding   *)
(* model.                                                                  *)
(***************************************************************************)
\* The URL is one way of writing the address of the page at host and path.
IsPage(u, host, path) == normalize_domain(u) = host /\ urlparse(u).path = path

\* The page fetch_html_requests returns for a URL, the same however the URL
\* is written: hrefs are the href values of its <link rel="canonical"> tags
\* in order, text is what extract_text makes of it, and summary is the
\* answer of summarize_ollama, "" when it gives none or raises.  The page of
\* y names itself by a relative link behind a blank one, the page of w names
\* the page of z, and the pages of x and z have no canonical link; the
\* fingerprints of the pages of y and w differ in 3 bits.
Fetched(u) ==
  CASE IsPage(u, <<"a",".","c","o","m">>, <<"/","x">>) ->
         [hrefs |-> <<>>,
          text |-> <<"R","u","s","t",".">>,
          summary |-> <<"T","h","e"," ","R","u","s","t"," ","b","o","r","r","o","w"," ","c","h","e","c","k","e","r">>]
    [] IsPage(u, <<"a",".","c","o","m">>, <<"/","y">>) ->
         [hrefs |-> <<<<" ">>, <<" ","/","y"," ">>>>,
          text |-> <<" ","I","t"," ","i","s"," ","s","o","."," ">>,
          summary |-> <<"R","u","s","t"," ","p","a","s","t","a",":"," ","c","o","o","k","i","n","g",","," ","c","o","o","k","i","n","g","!">>]
    [] IsPage(u, <<"a",".","c","o","m">>, <<"/","w">>) ->
         [hrefs |-> <<<<"h","t","t","p","s",":","/","/","b",".","c","o","m","/","z">>>>,
          text |-> <<>>,
          summary |-> <<"c","o","o","k","i","n","g"," ","p","a","s","t","a"," ","w","i","t","h"," ","r","u","s","t">>]
    [] IsPage(u, <<"b",".","c","o","m">>, <<"/","z">>) ->
         [hrefs |-> <<>>,
          text |-> <<"C","o","o","k","i","n","g"," ","p","a","s","t","a","."," ","N","o","w","."," ","T","h","e","n","."," ","W","h","y">>,
          summary |-> <<>>]

\* What embed_ollama returns for the tab of a URL; None when it raises.
Embedded(u) ==
  CASE IsPage(u, <<"a",".","c","o","m">>, <<"/","x">>) -> Some(<<3, 4>>)
    [] IsPage(u, <<"a",".","c","o","m">>, <<"/","y">>) -> Some(<<4, 3>>)
    [] IsPage(u, <<"a",".","c","o","m">>, <<"/","w">>) -> Some(<<0 - 4, 3>>)
    [] OTHER -> None

\* summary after lines 697-715: the summariser's answer, else the first
\* sentences of the text.
Summarized(summary, text) == IF summary # <<>> THEN summary ELSE fallback_summary(text, 3)

\* load_cache when there is no cache file
EmptyCache == <<>>

\* A cache file written by an earlier run, when the pages had no excerpt and
\* no canonical links: the entries are under the canonical URLs, their
\* fingerprints are 0, 7 and 63, and the entry of w has no keywords.
WarmCache ==
  [key \in {<<"h","t","t","p","s",":","/","/","a",".","c","o","m","/","x">>, <<"h","t","t","p","s",":","/","/","a",".","c","o","m","/","y">>, <<"h","t","t","p","s",":","/","/","a",".","c","o","m","/","w">>,
            <<"h","t","t","p","s",":","/","/","b",".","c","o","m","/","z">>} |->
     [ summary       |-> Summarized(Fetched(key).summary, Strip(Fetched(key).text)),
       text_excerpt  |-> <<>>,
       keywords      |-> IF key = <<"h","t","t","p","s",":","/","/","a",".","c","o","m","/","w">> THEN {}
                         ELSE Elements(extract_keywords(
                                Summarized(Fetched(key).summary, Strip(Fetched(key).text)),
                                KeywordCount)),
       canonical_url |-> key,
       simhash       |-> CASE key = <<"h","t","t","p","s",":","/","/","a",".","c","o","m","/","x">> -> Some({})
                           [] key = <<"h","t","t","p","s",":","/","/","a",".","c","o","m","/","y">> -> Some({0, 1, 2})
                           [] OTHER -> Some({0, 1, 2, 3, 4, 5}),
       embedding     |-> Embedded(key) ]]

\* The cache files tried.
CacheChoices == {EmptyCache, WarmCache}

\* get_cache_entry(cache, url)[0]: the entry under the URL, else the entry
\* under its canonical form; None for an empty cache and when neither is a
\* key.
get_cache_entry(cache, u) ==
  IF DOMAIN cache = {} THEN None
  ELSE IF u \in DOMAIN cache THEN Some(cache[u])
  ELSE IF canonicalize_url(u) \in DOMAIN cache THEN Some(cache[canonicalize_url(u)])
  ELSE None

RECURSIVE CanonicalHref(_, _)
\* parser.canonical_href after CanonicalLinkParser has read the canonical
\* links with the given hrefs ("" for a link without one): the first href
\* that is not empty is kept stripped, and a later one replaces it only
\* when nothing is left of it.  None is written <<>>.
CanonicalHref(hrefs, canonical_href) ==
  IF hrefs = <<>> THEN canonical_href
  ELSE IF Head(hrefs) # <<>> /\ canonical_href = <<>>
  THEN CanonicalHref(Tail(hrefs), Strip(Head(hrefs)))
  ELSE CanonicalHref(Tail(hrefs), canonical_href)

\* extract_canonical_url(html, base_url) for a page whose canonical links
\* have the given hrefs: None is written <<>>.
extract_canonical_url(hrefs, base_url) ==
  IF CanonicalHref(hrefs, <<>>) = <<>> THEN <<>>
  ELSE urljoin(base_url, CanonicalHref(hrefs, <<>>))

\* The tab after the branch "if cached and not args.refresh".
FromCache(tab, cached) ==
  [tab EXCEPT !.summary = cached.summary,
              !.text_excerpt = cached.text_excerpt,
              !.keywords = cached.keywords,
              !.canonical_url = IF cached.canonical_url # <<>>
                                THEN cached.canonical_url ELSE @,
              !.simhash = cached.simhash,
              !.embedding = IF cached.embedding # None /\ cached.embedding # Some(<<>>)
                            THEN cached.embedding ELSE @]

\* The tab with the summary and the stripped text of its page.
PageTab(tab, canonical, summary, text) ==
  [tab EXCEPT !.canonical_url = IF canonical # <<>> THEN canonicalize_url(canonical)
                                ELSE IF @ # <<>> THEN @ ELSE canonicalize_url(tab.url),
              !.summary = summary,
              !.text_excerpt = FirstOf(text, 400),
              !.keywords = Elements(extract_keywords(<<" ">> \o summary, KeywordCount))]

\* The tab after the branch "if not used_cache" for a page that was fetched,
\* given canonical = extract_canonical_url(html, url).
FromPage(tab, page, canonical) ==
  PageTab(tab, canonical, Summarized(page.summary, Strip(page.text)), Strip(page.text))

\* The tab with the canonical_url, the keywords and the tokens of lines
\* 722-730; load_tabs gives no tab a "tokens" key.
Worded(tab) ==
  [tab EXCEPT !.canonical_url = IF @ = <<>> THEN canonicalize_url(tab.url) ELSE @,
              !.keywords = IF @ = {}
                           THEN Elements(extract_keywords(<<" ">> \o tab.summary, KeywordCount))
                           ELSE @,
              !.tokens = tokenize(<<" ">> \o tab.summary \o <<" ">> \o tab.text_excerpt)]

\* The tab with the fingerprint and the embedding of lines 732-752, which it
\* gets when it has none; embed_text is empty for a tab without summary,
\* domain and excerpt.
Fingerprinted(tab) ==
  [tab EXCEPT !.simhash = IF @ = None THEN simhash_from_tokens(tab.tokens) ELSE @,
              !.embedding = IF @ = None /\ (tab.summary # <<>> \/ tab.domain # <<>>
                                            \/ tab.text_excerpt # <<>>)
                            THEN Embedded(tab.url) ELSE @]

\* The end of the loop body, lines 722-752.
Completed(tab) == Fingerprinted(Worded(tab))

\* entry: what the cache keeps of a tab
EntryOf(tab) ==
  [ summary       |-> tab.summary,
    text_excerpt  |-> tab.text_excerpt,
    keywords      |-> tab.keywords,
    canonical_url |-> tab.canonical_url,
    simhash       |-> tab.simhash,
    embedding     |-> tab.embedding ]

\* cache[cache_key] = entry, and cache[alt_key] = entry for another alt_key
Stored(cache, entry, cache_key, alt_key) ==
  IF cache_key = <<>> THEN cache
  ELSE [key \in DOMAIN cache \cup ({cache_key, alt_key} \ {<<>>}) |->
          IF key \in {cache_key, alt_key} THEN entry ELSE cache[key]]

RECURSIVE EnrichFrom(_, _, _, _)
\* The tab at idx is enriched and stored in the cache, and the loop goes on.
EnrichNext(ts, idx, tab, cache, failing) ==
  EnrichFrom([ts EXCEPT ![idx] = tab], idx + 1,
             Stored(cache, EntryOf(tab),
                    IF tab.canonical_url # <<>> THEN tab.canonical_url
                    ELSE canonicalize_url(tab.url),
                    canonicalize_url(tab.url)),
             failing)

\* for tab in tabs, from position idx on, with the cache as it is then:
\* a tab that is not http(s) is passed over; a tab with a cache entry takes
\* it; the page of another is fetched, which fails for the tabs in failing.
\* raises = the ValueError of urljoin, which nothing catches.
EnrichFrom(ts, idx, cache, failing) ==
  IF idx >= Size(ts) THEN [raises |-> FALSE, tabs |-> ts]
  ELSE IF ~is_http_url(ts[idx].url) THEN EnrichFrom(ts, idx + 1, cache, failing)
  ELSE IF get_cache_entry(cache, ts[idx].url) # None
  THEN EnrichNext(ts, idx,
                  Completed(FromCache(ts[idx], get_cache_entry(cache, ts[idx].url)[1])),
                  cache, failing)
  ELSE IF idx \in failing THEN EnrichFrom(ts, idx + 1, cache, failing)
  ELSE IF extract_canonical_url(Fetched(ts[idx].url).hrefs, ts[idx].url) = ValueError
  THEN [raises |-> TRUE, tabs |-> ts]
  ELSE EnrichNext(ts, idx,
                  Completed(FromPage(ts[idx], Fetched(ts[idx].url),
                                     extract_canonical_url(Fetched(ts[idx].url).hrefs,
                                                           ts[idx].url))),
                  cache, failing)

MainIdle ==
  /\ args = DefaultArgs
  /\ tabs = <<>>
  /\ primary_map = <<>> /\ duplicates = 0 /\ primary_tabs = <<>>
  /\ similarity_matrix = <<>> /\ edges = <<>>
  /\ groups_primary = <<>> /\ tab_to_group_primary = <<>> /\ groups = <<>>
  /\ pc = "off"

GroupIdle ==
  /\ bg_tabs = <<>> /\ bg_matrix = <<>>
  /\ bg_opts = [threshold |-> GroupThreshold, domain_group |-> TRUE,
                domain_group_min |-> DomainGroupMin, knn_k |-> KnnK]
  /\ bg_mutual = <<>> /\ bg_fallback = <<>>
  /\ gpc = "off"

ScoreIdle ==
  /\ sc_tabs = <<>>
  /\ sc_opts = [domain_bonus |-> DomainBonus, threshold |-> EdgeThreshold]
  /\ sc_matrix = <<>> /\ sc_reverse = <<>> /\ sc_edges = <<>>
  /\ spc = "off"

HashIdle ==
  /\ sh_tokens = <<>> /\ sh_shuffled = <<>>
  /\ sh_value = None /\ sh_shuffled_value = None
  /\ hpc = "off"

DedupeIdle ==
  /\ dd_in = <<>> /\ dd_threshold = DedupeHamming
  /\ dd_out = <<>>
  /\ dpc = "off"

UnitIdle == ScoreIdle /\ HashIdle /\ DedupeIdle
(***************************************************************************)
(* URLs under test: a URL is written as                                    *)
(*   scheme "://" host port path "?" field "&" field ... "#" fragment      *)
(* where an empty scheme or host gives a malformed URL.                    *)
(***************************************************************************)
Schemes == { <<>>, <<"h","t","t","p">>, <<"h","t","t","p","s">>, <<"H","T","T","P","S">> }

Hosts ==
  { <<>>, <<"e","x","a","m","p","l","e",".","c","o","m">>, <<"w","w","w",".","e","x","a","m","p","l","e",".","c","o","m">>, <<"W","W","W",".","E","x","a","m","p","l","e",".","c","o","m">>,
    <<"w","w","w",".","w","w","w",".","e","x","a","m","p","l","e",".","c","o","m">>, <<"[">>, <<"[","x","]">>, <<"[",":",":","1","]">> }

Ports == { <<>>, <<":","8","0">>, <<":","4","4","3">> }

Paths == { <<>>, <<"/">>, <<"/","a">>, <<"/","a","/">>, <<"/","a","/","/">> }

Queries ==
  { <<>>,
    <<<<"a","=","1">>>>,
    <<<<"b","=","2">>, <<"a","=","1">>>>,
    <<<<"u","t","m","_","s","o","u","r","c","e","=","x">>, <<"b","=","2">>, <<"a","=","1">>>>,
    <<<<"r","e","f","=","r">>, <<"q","=","a"," ","b">>>> }

Fragments == { <<>>, <<"f">> }

UrlParts ==
  [scheme : Schemes, host : Hosts, port : Ports, path : Paths,
   query : Queries, fragment : Fragments]

\* The URL string written from its pieces.
UrlOf(p) ==
  (IF p.scheme # <<>> THEN p.scheme \o <<":","/","/">> ELSE <<>>)
  \o p.host \o p.port \o p.path
  \o (IF p.query # <<>> THEN <<"?">> \o Join(p.query, <<"&">>) ELSE <<>>)
  \o (IF p.fragment # <<>> THEN <<"#">> \o p.fragment ELSE <<>>)

UpperChar(c) == IF IsLower(c) THEN Chr(CodeOf[c] - 32) ELSE c

RECURSIVE Upper(_)
Upper(s) == IF s = <<>> THEN <<>> ELSE <<UpperChar(Head(s))>> \o Upper(Tail(s))

RECURSIVE Reverse(_)
Reverse(s) == IF s = <<>> THEN <<>> ELSE Reverse(Tail(s)) \o <<Head(s)>>

\* A URL with a scheme and a host name: the well-formed inputs.
WellFormed(p) == p.scheme # <<>> /\ p.host # <<>> /\ ~Contains(p.host, "[")

\* A URL with no scheme or no host.
Malformed(p) == p.scheme = <<>> \/ p.host = <<>>

VariantKinds == {"case", "port", "www", "slash", "fragment", "tracking", "order"}

\* Whether a URL has a variant of the given kind.
HasVariant(p, kind) ==
  CASE kind = "port"  -> p.port = <<>> /\ Lower(p.scheme) \in {<<"h","t","t","p">>, <<"h","t","t","p","s">>}
    [] kind = "www"   -> p.host # <<>>
    [] kind = "slash" -> p.path # <<>> /\ p.path # <<"/">>
    [] OTHER          -> TRUE

\* The pieces of a URL that differs from p only in: the case of scheme and
\* host, an explicit default port, one more leading www. label, one more
\* trailing slash on a non-root path, the fragment, one more tracking
\* parameter, or the order of the query parameters.
VaryParts(p, kind) ==
  CASE kind = "case"     -> [p EXCEPT !.scheme = Upper(@), !.host = Upper(@)]
    [] kind = "port"     -> [p EXCEPT !.port = IF Lower(p.scheme) = <<"h","t","t","p">>
                                               THEN <<":","8","0">> ELSE <<":","4","4","3">>]
    [] kind = "www"      -> [p EXCEPT !.host = <<"w","w","w",".">> \o @]
    [] kind = "slash"    -> [p EXCEPT !.path = @ \o <<"/">>]
    [] kind = "fragment" -> [p EXCEPT !.fragment = IF @ = <<>> THEN <<"t","o","p">> ELSE <<>>]
    [] kind = "tracking" -> [p EXCEPT !.query = <<<<"u","t","m","_","m","e","d","i","u","m","=","m">>>> \o @]
    [] kind = "order"    -> [p EXCEPT !.query = Reverse(@)]

(***************************************************************************)
(* canonicalize_url as a state machine over the URLs under test.           *)
(***************************************************************************)
NoResult == <<"-">>

UrlIdle ==
  /\ parts = [scheme |-> <<>>, host |-> <<>>, port |-> <<>>, path |-> <<>>,
              query |-> <<>>, fragment |-> <<>>]
  /\ url = <<>>
  /\ canon = NoResult /\ recanon = NoResult
  /\ variant = NoResult /\ vkind = "none" /\ vcanon = NoResult
  /\ upc = "off"

\* load_tabs skips empty URLs, so canonicalize_url is never given one.
InitCanon ==
  /\ parts \in UrlParts
  /\ url = UrlOf(parts)
  /\ url # <<>>
  /\ canon = NoResult /\ recanon = NoResult
  /\ variant = NoResult /\ vkind = "none" /\ vcanon = NoResult
  /\ upc = "input"
  /\ MainIdle /\ GroupIdle /\ UnitIdle

\* c = canonicalize_url(url)
Canonicalize ==
  /\ upc = "input"
  /\ canon' = canonicalize_url(url)
  /\ upc' = "canon"
  /\ UNCHANGED <<parts, url, recanon, variant, vkind, vcanon>>
  /\ UNCHANGED <<mainVars, groupVars, unitVars>>

\* canonicalize_url(c)
Recanonicalize ==
  /\ upc = "canon"
  /\ recanon' = canonicalize_url(canon)
  /\ upc' = "recanon"
  /\ UNCHANGED <<parts, url, canon, variant, vkind, vcanon>>
  /\ UNCHANGED <<mainVars, groupVars, unitVars>>

\* A second URL that differs from the first in one respect.
Vary ==
  /\ upc = "canon"
  /\ \E kind \in VariantKinds :
       /\ HasVariant(parts, kind)
       /\ variant' = UrlOf(VaryParts(parts, kind))
       /\ vkind' = kind
  /\ upc' = "variant"
  /\ UNCHANGED <<parts, url, canon, recanon, vcanon>>
  /\ UNCHANGED <<mainVars, groupVars, unitVars>>

\* canonicalize_url(variant)
CanonicalizeVariant ==
  /\ upc = "variant"
  /\ vcanon' = canonicalize_url(variant)
  /\ upc' = "vcanon"
  /\ UNCHANGED <<parts, url, canon, recanon, variant, vkind>>
  /\ UNCHANGED <<mainVars, groupVars, unitVars>>

NextCanon == Canonicalize \/ Recanonicalize \/ Vary \/ CanonicalizeVariant

SpecCanon == InitCanon /\ [][NextCanon]_vars

(***************************************************************************)
(* main(): load and enrich the tabs, then build the graph.                 *)
(***************************************************************************)
Init ==
  /\ args \in ArgChoices
  /\ tabs = <<>>
  /\ primary_map = <<>> /\ duplicates = 0 /\ primary_tabs = <<>>
  /\ similarity_matrix = <<>> /\ edges = <<>>
  /\ groups_primary = <<>> /\ tab_to_group_primary = <<>> /\ groups = <<>>
  /\ pc = "load"
  /\ UrlIdle /\ GroupIdle /\ UnitIdle

\* load_tabs, for one more tab of the export.  The ValueError of
\* normalize_domain is caught nowhere: main() ends there, with no graph.
LoadTab ==
  /\ pc = "load"
  /\ Size(tabs) < MaxTabs
  /\ \E u \in TabUrls :
       IF normalize_domain(u) = ValueError
       THEN pc' = "aborted" /\ tabs' = tabs
       ELSE /\ pc' = pc
            /\ tabs' = [i \in 0..Size(tabs) |->
                          IF i < Size(tabs) THEN tabs[i] ELSE NewTab(i, u)]
  /\ UNCHANGED <<args, primary_map, duplicates, primary_tabs, similarity_matrix,
                 edges, groups_primary, tab_to_group_primary, groups>>
  /\ UNCHANGED <<urlVars, groupVars, unitVars>>

\* cache = load_cache(args.cache) and the enrichment loop over all tabs.
Enrich ==
  /\ pc = "load"
  /\ \E cache \in CacheChoices, failing \in SUBSET (DOMAIN tabs) :
       \E r \in {EnrichFrom(tabs, 0, cache, failing)} :
         IF r.raises THEN pc' = "aborted" /\ tabs' = tabs
         ELSE pc' = "enriched" /\ tabs' = r.tabs
  /\ UNCHANGED <<args, primary_map, duplicates, primary_tabs, similarity_matrix,
                 edges, groups_primary, tab_to_group_primary, groups>>
  /\ UNCHANGED <<urlVars, groupVars, unitVars>>

\* primary_map, duplicates = dedupe_tabs(tabs, args.dedupe_hamming), and the
\* list of primaries.
Dedupe ==
  /\ pc = "enriched"
  /\ \E r \in {dedupe_tabs(tabs, args.dedupe_hamming)} :
         /\ tabs' = r.tabs
         /\ primary_map' = r.primary_map
         /\ duplicates' = r.duplicates
         /\ primary_tabs' = ListOf(PrimaryIds(r.tabs, 0))
  /\ pc' = "deduped"
  /\ UNCHANGED <<args, similarity_matrix, edges, groups_primary,
                 tab_to_group_primary, groups>>
  /\ UNCHANGED <<urlVars, groupVars, unitVars>>

\* The records of the primary tabs, in list order.
PrimaryRecords == [i \in DOMAIN primary_tabs |-> tabs[primary_tabs[i]]]

BuildSimilarity ==
  /\ pc = "deduped"
  /\ similarity_matrix' = build_similarity_matrix(PrimaryRecords, args.domain_bonus)
  /\ pc' = "scored"
  /\ UNCHANGED <<args, tabs, primary_map, duplicates, primary_tabs, edges,
                 groups_primary, tab_to_group_primary, groups>>
  /\ UNCHANGED <<urlVars, groupVars, unitVars>>

BuildEdges ==
  /\ pc = "scored"
  /\ edges' = build_edges(PrimaryRecords, similarity_matrix, args.edge_threshold)
  /\ pc' = "edges"
  /\ UNCHANGED <<args, tabs, primary_map, duplicates, primary_tabs,
                 similarity_matrix, groups_primary, tab_to_group_primary, groups>>
  /\ UNCHANGED <<urlVars, groupVars, unitVars>>

BuildGroups ==
  /\ pc = "edges"
  /\ \E r \in {build_groups(PrimaryRecords, similarity_matrix, args.group_threshold,
                              ~args.no_domain_group, args.domain_group_min,
                              ~args.no_mutual_knn, args.knn_k)} :
         /\ groups_primary' = r.groups
         /\ tab_to_group_primary' = r.tab_to_group
  /\ pc' = "grouped"
  /\ UNCHANGED <<args, tabs, primary_map, duplicates, primary_tabs,
                 similarity_matrix, edges, groups>>
  /\ UNCHANGED <<urlVars, groupVars, unitVars>>

\* The tabs with the group of their primary written on them.
Grouped(ts, pmap, to_group) ==
  [i \in DOMAIN ts |-> [ts[i] EXCEPT !.group_id = GroupIdOf(pmap, to_group, ts[i].id)]]

\* The final group list: the tab_ids of every group of primaries, and its
\* label from the primaries among them.
FinalGroups(ts, pmap, to_group, gprimary, idf) ==
  [g \in DOMAIN gprimary |->
     GroupEntry(gprimary[g].id,
                IdsOfGroup(ts, pmap, to_group, gprimary[g].id, 0),
                label_group(PrimaryMembersOf(ts, IdsOfGroup(ts, pmap, to_group,
                                                            gprimary[g].id, 0)), idf))]

\* idf = compute_idf(primary_docs) if primary_docs else {}
PrimaryIdf == compute_idf([i \in DOMAIN primary_tabs |-> tabs[primary_tabs[i]].tokens])

\* Every tab gets the group of its primary, the final group list is written
\* from the groups of primaries, and the tokens and embeddings are dropped
\* from the tabs.
Assemble ==
  /\ pc = "grouped"
  /\ \E ts \in {Grouped(tabs, primary_map, tab_to_group_primary)} :
       /\ groups' = FinalGroups(ts, primary_map, tab_to_group_primary,
                                groups_primary, PrimaryIdf)
       /\ tabs' = [i \in DOMAIN ts |-> Popped(ts[i])]
  /\ pc' = "done"
  /\ UNCHANGED <<args, primary_map, duplicates, primary_tabs, similarity_matrix,
                 edges, groups_primary, tab_to_group_primary>>
  /\ UNCHANGED <<urlVars, groupVars, unitVars>>

Next == LoadTab \/ Enrich \/ Dedupe \/ BuildSimilarity \/ BuildEdges \/ BuildGroups \/ Assemble

Spec == Init /\ [][Next]_vars

(***************************************************************************)
(* build_groups on its own: every small list of primaries, symmetric       *)
(* similarity matrix and setting, grouped with the mutual-KNN filter on    *)
(* and off.                                                                *)
(***************************************************************************)
\* Largest number of primaries given to build_groups.
MaxPrimaries == 3

GroupDomains == { <<>>, <<"a",".","c","o","m">>, <<"b",".","c","o","m">> }

\* Scores below, at and above the group threshold.
ScoreChoices == {0, GroupThreshold, 2 * GroupThreshold}

\* The matrices build_similarity_matrix can return for n tabs: symmetric,
\* with a zero diagonal.
SymmetricMatrices(n) ==
  LET Pairs == {p \in (0..(n - 1)) \X (0..(n - 1)) : p[1] < p[2]}
  IN  {[i \in 0..(n - 1) |->
         [j \in 0..(n - 1) |->
            IF i = j THEN 0 ELSE IF i < j THEN u[<<i, j>>] ELSE u[<<j, i>>]]] :
       u \in [Pairs -> ScoreChoices]}

GroupOptions ==
  [threshold : {GroupThreshold}, domain_group : BOOLEAN,
   domain_group_min : {DomainGroupMin, DomainGroupMin + 1}, knn_k : {0, 1, 2}]

InitGroups ==
  /\ \E n \in 1..MaxPrimaries :
       /\ bg_tabs \in {[i \in 0..(n - 1) |-> [id |-> i, domain |-> d[i]]] :
                         d \in [0..(n - 1) -> GroupDomains]}
       /\ bg_matrix \in SymmetricMatrices(n)
  /\ bg_opts \in GroupOptions
  /\ bg_mutual = <<>> /\ bg_fallback = <<>>
  /\ gpc = "input"
  /\ UrlIdle /\ MainIdle /\ UnitIdle

\* build_groups(..., mutual_knn=True, knn_k)
GroupMutual ==
  /\ gpc = "input"
  /\ bg_mutual' = build_groups(bg_tabs, bg_matrix, bg_opts.threshold,
                               bg_opts.domain_group, bg_opts.domain_group_min,
                               TRUE, bg_opts.knn_k)
  /\ gpc' = "mutual"
  /\ UNCHANGED <<bg_tabs, bg_matrix, bg_opts, bg_fallback>>
  /\ UNCHANGED <<urlVars, mainVars, unitVars>>

\* build_groups(..., mutual_knn=False, knn_k) on the same input
GroupFallback ==
  /\ gpc = "mutual"
  /\ bg_fallback' = build_groups(bg_tabs, bg_matrix, bg_opts.threshold,
                                 bg_opts.domain_group, bg_opts.domain_group_min,
                                 FALSE, bg_opts.knn_k)
  /\ gpc' = "both"
  /\ UNCHANGED <<bg_tabs, bg_matrix, bg_opts, bg_mutual>>
  /\ UNCHANGED <<urlVars, mainVars, unitVars>>

NextGroups == GroupMutual \/ GroupFallback

SpecGroups == InitGroups /\ [][NextGroups]_vars

(***************************************************************************)
(* build_groups with the mutual-KNN filter on and domain grouping off:     *)
(* groups by similarity alone, over a wider range of scores.               *)
(***************************************************************************)
\* Scores below the group threshold, at it, and two above it.
KnnScores == {0, GroupThreshold, 2 * GroupThreshold, 3 * GroupThreshold}

KnnMatrices(n) ==
  LET Pairs == {p \in (0..(n - 1)) \X (0..(n - 1)) : p[1] < p[2]}
  IN  {[i \in 0..(n - 1) |->
         [j \in 0..(n - 1) |->
            IF i = j THEN 0 ELSE IF i < j THEN u[<<i, j>>] ELSE u[<<j, i>>]]] :
       u \in [Pairs -> KnnScores]}

KnnOptions ==
  [threshold : {GroupThreshold}, domain_group : {FALSE},
   domain_group_min : {DomainGroupMin}, knn_k : {0, 1, 2}]

InitKnn ==
  /\ \E n \in 1..MaxPrimaries :
       /\ bg_tabs = [i \in 0..(n - 1) |-> [id |-> i, domain |-> <<>>]]
       /\ bg_matrix \in KnnMatrices(n)
  /\ bg_opts \in KnnOptions
  /\ bg_mutual = <<>> /\ bg_fallback = <<>>
  /\ gpc = "input"
  /\ UrlIdle /\ MainIdle /\ UnitIdle

SpecKnn == InitKnn /\ [][GroupMutual]_vars

(***************************************************************************)
(* The similarity scorer and build_edges on their own: every short list   *)
(* of tabs with or without embedding, keywords and domain.                 *)
(***************************************************************************)
\* Largest number of tabs scored.
MaxScored == 2

ScoreDomains == { <<>>, <<"a",".","c","o","m">>, <<"b",".","c","o","m">> }

\* Keyword sets: none, and two that share one keyword of three.
ScoreKeywords == { {}, {"rust", "borrow"}, {"borrow", "checker"} }

\* Embeddings: absent, empty, of zero norm, of another dimension, and two
\* at right angles to each other.
ScoreEmbeddings ==
  { None, Some(<<>>), Some(<<0, 0>>), Some(<<5>>), Some(<<3, 4>>), Some(<<0 - 4, 3>>) }

\* Edge thresholds: the default 0.2, and one third.
ScoreThresholds == { EdgeThreshold, Scale \div 3 }

ScoredTabs(n) ==
  {[i \in 0..(n - 1) |->
      [id |-> i, domain |-> c[i][1], keywords |-> c[i][2], embedding |-> c[i][3]]] :
   c \in [0..(n - 1) -> ScoreDomains \X ScoreKeywords \X ScoreEmbeddings]}

InitScore ==
  /\ \E n \in 1..MaxScored : sc_tabs \in ScoredTabs(n)
  /\ sc_opts \in [domain_bonus : {DomainBonus}, threshold : ScoreThresholds]
  /\ sc_matrix = <<>> /\ sc_reverse = <<>> /\ sc_edges = <<>>
  /\ spc = "input"
  /\ UrlIdle /\ MainIdle /\ GroupIdle /\ HashIdle /\ DedupeIdle

\* build_similarity_matrix, and similarity_score with the two tabs of every
\* pair given in the other order.
Score ==
  /\ spc = "input"
  /\ sc_matrix' = build_similarity_matrix(sc_tabs, sc_opts.domain_bonus)
  /\ sc_reverse' = [i \in DOMAIN sc_tabs |->
                      [j \in DOMAIN sc_tabs |->
                         similarity_score(sc_tabs[j], sc_tabs[i], sc_opts.domain_bonus)]]
  /\ spc' = "scored"
  /\ UNCHANGED <<sc_tabs, sc_opts, sc_edges>>
  /\ UNCHANGED <<urlVars, mainVars, groupVars, hashVars, dedupeVars>>

\* build_edges over the matrix
ScoreEdges ==
  /\ spc = "scored"
  /\ sc_edges' = build_edges(sc_tabs, sc_matrix, sc_opts.threshold)
  /\ spc' = "edges"
  /\ UNCHANGED <<sc_tabs, sc_opts, sc_matrix, sc_reverse>>
  /\ UNCHANGED <<urlVars, mainVars, groupVars, hashVars, dedupeVars>>

NextScore == Score \/ ScoreEdges

SpecScore == InitScore /\ [][NextScore]_vars

(***************************************************************************)
(* simhash_from_tokens on its own: every short token list and every        *)
(* permutation of it.                                                      *)
(***************************************************************************)
\* Largest number of tokens fingerprinted.
MaxTokens == 3

HashTokens == {<<"r","u","s","t">>, <<"b","o","r","r","o","w">>, <<"c","h","e","c","k","e","r">>, <<"p","a","s","t","a">>}

\* The token lists of length n.
TokenLists(n) == [1..n -> HashTokens]

\* The orders in which the tokens of a list can be given.
Reorderings(s) ==
  {[k \in 1..Len(s) |-> s[p[k]]] :
     p \in {f \in [1..Len(s) -> 1..Len(s)] : \A a, b \in 1..Len(s) : f[a] = f[b] => a = b}}

InitSimhash ==
  /\ \E n \in 0..MaxTokens : sh_tokens \in TokenLists(n)
  /\ sh_shuffled \in Reorderings(sh_tokens)
  /\ sh_value = None /\ sh_shuffled_value = None
  /\ hpc = "input"
  /\ UrlIdle /\ MainIdle /\ GroupIdle /\ ScoreIdle /\ DedupeIdle

\* simhash_from_tokens(tokens)
Fingerprint ==
  /\ hpc = "input"
  /\ sh_value' = simhash_from_tokens(sh_tokens)
  /\ hpc' = "one"
  /\ UNCHANGED <<sh_tokens, sh_shuffled, sh_shuffled_value>>
  /\ UNCHANGED <<urlVars, mainVars, groupVars, scoreVars, dedupeVars>>

\* simhash_from_tokens of the same tokens in the other order
FingerprintShuffled ==
  /\ hpc = "one"
  /\ sh_shuffled_value' = simhash_from_tokens(sh_shuffled)
  /\ hpc' = "both"
  /\ UNCHANGED <<sh_tokens, sh_shuffled, sh_value>>
  /\ UNCHANGED <<urlVars, mainVars, groupVars, scoreVars, dedupeVars>>

NextSimhash == Fingerprint \/ FingerprintShuffled

SpecSimhash == InitSimhash /\ [][NextSimhash]_vars

(***************************************************************************)
(* dedupe_tabs on its own: every short list of tabs, with or without a    *)
(* canonical_url and a fingerprint.                                        *)
(***************************************************************************)
\* Largest number of tabs given to dedupe_tabs.
MaxDeduped == 2

DedupeUrls == { <<"h","t","t","p","s",":","/","/","a",".","c","o","m","/","x">>, <<"h","t","t","p","s",":","/","/","w","w","w",".","a",".","c","o","m","/","y">>, <<"h","t","t","p","s",":","/","/","b",".","c","o","m","/","z">> }

\* The canonical_url a tab with URL u comes with: none, that of its URL, or
\* that of a canonical link its page declares.
DedupeCanonicals(u) == { <<>>, canonicalize_url(u), <<"h","t","t","p","s",":","/","/","a",".","c","o","m","/","c">> }

DedupeSimhashes == { None, Some({}), Some({0, 1}) }

\* A tab record as dedupe_tabs reads and writes it.
DedupeTab(id, u, canonical, simhash) ==
  [ id            |-> id,
    url           |-> u,
    domain        |-> normalize_domain(u),
    canonical_url |-> canonical,
    simhash       |-> simhash,
    duplicate_of  |-> NoId,
    aliases       |-> {} ]

DedupeTabLists(n) ==
  {[i \in 0..(n - 1) |-> DedupeTab(i, c[i][1], c[i][2], c[i][3])] :
   c \in [0..(n - 1) ->
            {t \in DedupeUrls \X {<<>>, <<"h","t","t","p","s",":","/","/","a",".","c","o","m","/","x">>, <<"h","t","t","p","s",":","/","/","a",".","c","o","m","/","y">>,
                                  <<"h","t","t","p","s",":","/","/","b",".","c","o","m","/","z">>, <<"h","t","t","p","s",":","/","/","a",".","c","o","m","/","c">>}
                              \X DedupeSimhashes : t[2] \in DedupeCanonicals(t[1])}]}

InitDedupe ==
  /\ \E n \in 1..MaxDeduped : dd_in \in DedupeTabLists(n)
  /\ dd_threshold = DedupeHamming
  /\ dd_out = <<>>
  /\ dpc = "input"
  /\ UrlIdle /\ MainIdle /\ GroupIdle /\ ScoreIdle /\ HashIdle

\* dedupe_tabs(tabs, hamming_threshold)
DedupeAlone ==
  /\ dpc = "input"
  /\ dd_out' = dedupe_tabs(dd_in, dd_threshold)
  /\ dpc' = "done"
  /\ UNCHANGED <<dd_in, dd_threshold>>
  /\ UNCHANGED <<urlVars, mainVars, groupVars, scoreVars, hashVars>>

SpecDedupe == InitDedupe /\ [][DedupeAlone]_vars

(***************************************************************************)
(* Properties of canonicalize_url.                                         *)
(***************************************************************************)
\* C1: canonicalize_url is idempotent: canonicalising a canonical URL gives
\* the same string again, for every URL.
CanonicalizeIdempotent == upc = "recanon" => recanon = canon

\* C4: two well-formed URLs that differ only in the case of scheme or host,
\* an explicit default port, one leading www. label, one trailing slash on a
\* non-root path, the fragment, a tracking parameter or the order of the
\* query parameters canonicalise to the same string.
VariantsCanonicalizeAlike ==
  (upc = "vcanon" /\ WellFormed(parts)) => vcanon = canon

\* C5: a malformed URL (no scheme or no host) is returned unchanged.
MalformedReturnedUnchanged ==
  (upc # "input" /\ Malformed(parts)) => canon = url

(***************************************************************************)
(* Properties of the near-duplicate resolver.                              *)
(***************************************************************************)
\* dedupe_tabs has run.
Deduped == pc \in {"deduped", "scored", "edges", "grouped", "done"}

\* Tabs a and b are a duplicate pair: equal canonical_url, or the same
\* non-empty domain and fingerprints within the threshold.
DuplicatePair(a, b) ==
  \/ tabs[a].canonical_url # <<>> /\ tabs[a].canonical_url = tabs[b].canonical_url
  \/ /\ tabs[a].simhash # None /\ tabs[b].simhash # None
     /\ tabs[a].domain # <<>> /\ tabs[a].domain = tabs[b].domain
     /\ hamming_distance(tabs[a].simhash[1], tabs[b].simhash[1]) <= args.dedupe_hamming

\* The duplicate cluster of tab a: the tabs mapped to the same primary.
ClusterOf(a) == {b \in DOMAIN tabs : primary_map[b] = primary_map[a]}

\* C2: if A, B and B, C are duplicate pairs then A, B and C are in one
\* cluster, and the primary of every cluster is its member of smallest id.
DedupTransitive ==
  Deduped =>
    /\ \A a, b, c \in DOMAIN tabs :
         DuplicatePair(a, b) /\ DuplicatePair(b, c) =>
           primary_map[a] = primary_map[b] /\ primary_map[b] = primary_map[c]
    /\ \A a \in DOMAIN tabs : primary_map[a] = Min(ClusterOf(a))

\* A chain A, B, C whose ends are not a duplicate pair has been merged.
DedupChainMerged ==
  /\ Deduped
  /\ \E a, b, c \in DOMAIN tabs :
       /\ a # b /\ b # c /\ a # c
       /\ DuplicatePair(a, b) /\ DuplicatePair(b, c) /\ ~DuplicatePair(a, c)
       /\ primary_map[a] = Min({a, b, c}) /\ primary_map[c] = Min({a, b, c})

\* C3: duplicate_of, when set, names a primary: another tab that is not
\* itself a duplicate, that primary_map maps to itself and maps the
\* duplicate to.
DuplicateSingleHop ==
  Deduped =>
    \A t \in DOMAIN tabs :
      tabs[t].duplicate_of # NoId =>
        LET p == tabs[t].duplicate_of
        IN  /\ p \in DOMAIN tabs /\ p # t
            /\ tabs[p].duplicate_of = NoId
            /\ primary_map[p] = p /\ primary_map[t] = p

\* A primary has two duplicates.
TwoDuplicatesOfOne ==
  /\ Deduped
  /\ \E t, u \in DOMAIN tabs :
       t # u /\ tabs[t].duplicate_of # NoId /\ tabs[t].duplicate_of = tabs[u].duplicate_of

(***************************************************************************)
(* Properties of the assembled graph.                                      *)
(***************************************************************************)
\* The number of times id is listed in the tab_ids of group g.
Listed(g, id) == Cardinality({k \in 1..Len(groups[g].tab_ids) : groups[g].tab_ids[k] = id})

\* C6: a duplicate has the group_id of its primary and is listed in the
\* tab_ids of exactly that group.
DuplicateSharesGroup ==
  pc = "done" =>
    \A t \in DOMAIN tabs :
      tabs[t].duplicate_of # NoId =>
        /\ tabs[t].group_id = tabs[tabs[t].duplicate_of].group_id
        /\ \E g \in DOMAIN groups : groups[g].id = tabs[t].group_id
        /\ \A g \in DOMAIN groups :
             Listed(g, tabs[t].id) > 0 <=> groups[g].id = tabs[t].group_id

\* A graph with a duplicate and more than one group.
DuplicateAmongGroups ==
  /\ pc = "done"
  /\ Size(groups) > 1
  /\ \E t \in DOMAIN tabs : tabs[t].duplicate_of # NoId

\* C9: every tab has a group_id in 0..group_count-1, is listed once in the
\* tab_ids of the group with that id and in no other, and each group's size
\* is the length of its tab_ids.
EveryTabGrouped ==
  pc = "done" =>
    /\ \A t \in DOMAIN tabs :
         /\ tabs[t].group_id \in 0..(Size(groups) - 1)
         /\ \A g \in DOMAIN groups :
              Listed(g, tabs[t].id) = (IF groups[g].id = tabs[t].group_id THEN 1 ELSE 0)
         /\ Cardinality({g \in DOMAIN groups : groups[g].id = tabs[t].group_id}) = 1
    /\ \A g \in DOMAIN groups : groups[g].size = Len(groups[g].tab_ids)

\* A graph with a duplicate, a tab without domain or keywords, and a tab
\* with a domain whose page was not fetched.
BareTabsGrouped ==
  /\ pc = "done"
  /\ \E t \in DOMAIN tabs : tabs[t].duplicate_of # NoId
  /\ \E t \in DOMAIN tabs :
       tabs[t].domain = <<>> /\ tabs[t].keywords = {} /\ tabs[t].group_id >= 0
  /\ \E t \in DOMAIN tabs :
       tabs[t].domain # <<>> /\ tabs[t].keywords = {} /\ tabs[t].simhash = None
       /\ tabs[t].group_id >= 0

\* build_edges has run.
EdgesBuilt == pc \in {"edges", "grouped", "done"}

\* C10: every edge joins two distinct primaries, source id below target id,
\* and no unordered pair has two edges.
EdgesJoinPrimaries ==
  EdgesBuilt =>
    \A k \in 1..Len(edges) :
      /\ edges[k].source \in DOMAIN tabs /\ edges[k].target \in DOMAIN tabs
      /\ tabs[edges[k].source].duplicate_of = NoId
      /\ tabs[edges[k].target].duplicate_of = NoId
      /\ edges[k].source < edges[k].target
      /\ \A l \in 1..Len(edges) :
           l # k => {edges[l].source, edges[l].target} # {edges[k].source, edges[k].target}

\* An edge has been emitted while some tab is a duplicate.
EdgesBesideDuplicate ==
  /\ EdgesBuilt
  /\ Len(edges) >= 1
  /\ \E t \in DOMAIN tabs : tabs[t].duplicate_of # NoId

(***************************************************************************)
(* Properties of build_groups.                                             *)
(***************************************************************************)
\* Tabs a and b are in the same group of a build_groups result.
SameGroup(r, a, b) == r.tab_to_group[a] = r.tab_to_group[b]

BgIds == {bg_tabs[i].id : i \in DOMAIN bg_tabs}

\* C7: the groups made with the mutual-KNN filter refine those made without
\* it on the same input, so the filter never gives fewer groups.
MutualKnnRefines ==
  gpc = "both" =>
    /\ \A a, b \in BgIds : SameGroup(bg_mutual, a, b) => SameGroup(bg_fallback, a, b)
    /\ Size(bg_mutual.groups) >= Size(bg_fallback.groups)

\* The filter has kept apart two tabs that the threshold alone merges.
MutualKnnSplits ==
  /\ gpc = "both"
  /\ Size(bg_mutual.groups) > Size(bg_fallback.groups)
  /\ \E a, b \in BgIds : SameGroup(bg_fallback, a, b) /\ ~SameGroup(bg_mutual, a, b)

\* The primaries given to build_groups that have the domain of position i.
SameDomain(i) == {j \in DOMAIN bg_tabs : bg_tabs[j].domain = bg_tabs[i].domain}

\* C8: with domain grouping on, the tabs of a non-empty domain that has at
\* least domain_group_min tabs are all in one group, whatever the matrix,
\* the threshold and the mutual-KNN setting.
DomainGroupsTogether ==
  (gpc \in {"mutual", "both"} /\ bg_opts.domain_group) =>
    \A i \in DOMAIN bg_tabs :
      (bg_tabs[i].domain # <<>> /\ Cardinality(SameDomain(i)) >= bg_opts.domain_group_min) =>
        \A j \in SameDomain(i) :
          /\ SameGroup(bg_mutual, bg_tabs[i].id, bg_tabs[j].id)
          /\ gpc = "both" => SameGroup(bg_fallback, bg_tabs[i].id, bg_tabs[j].id)

\* Three tabs of one domain, every pair scoring below the threshold, with
\* domain_group_min = 2: exactly one group, with the filter on and off.
DissimilarDomainOneGroup ==
  /\ gpc = "both"
  /\ bg_opts.domain_group /\ bg_opts.domain_group_min = 2
  /\ Size(bg_tabs) = 3
  /\ \A i \in DOMAIN bg_tabs : bg_tabs[i].domain = <<"a",".","c","o","m">>
  /\ \A i, j \in DOMAIN bg_tabs : bg_matrix[i][j] < bg_opts.threshold
  /\ Size(bg_mutual.groups) = 1 /\ Size(bg_fallback.groups) = 1

(***************************************************************************)
(* Properties of the similarity scorer and of build_edges.                 *)
(***************************************************************************)
\* C11: every edge carries a weight that is at least the edge threshold
\* (weights are thousandths, thresholds are in units of 1/Scale).
EdgeWeightsReachThreshold ==
  spc = "edges" =>
    \A k \in 1..Len(sc_edges) : sc_edges[k].weight * Scale >= sc_opts.threshold * 1000

\* C12: similarity_score gives the same score for a pair in either order,
\* and the matrix of build_similarity_matrix is symmetric.
SimilaritySymmetric ==
  spc \in {"scored", "edges"} =>
    \A i, j \in DOMAIN sc_tabs :
      /\ sc_matrix[i][j] = sc_matrix[j][i]
      /\ i # j => sc_matrix[i][j] = sc_reverse[i][j]
      /\ sc_reverse[i][j] = sc_reverse[j][i]

\* Two tabs of which one has no domain, the other has one, and whose score
\* is not 0 have been scored in both orders.
MixedPairScored ==
  /\ spc = "scored"
  /\ \E i, j \in DOMAIN sc_tabs :
       /\ sc_tabs[i].domain = <<>> /\ sc_tabs[j].domain # <<>>
       /\ sc_tabs[i].embedding # sc_tabs[j].embedding
       /\ sc_matrix[i][j] > 0 /\ sc_reverse[i][j] > 0

\* The cosine of two embeddings that are present, of equal non-zero length
\* and of non-zero norm; 0 stands for no usable cosine.
UsableCosine(a, b) ==
  IF /\ a # None /\ b # None
     /\ Len(a[1]) = Len(b[1]) /\ Len(a[1]) > 0
     /\ Dot(a[1], a[1]) > 0 /\ Dot(b[1], b[1]) > 0
  THEN (Dot(a[1], b[1]) * Scale) \div (Sqrt(Dot(a[1], a[1])) * Sqrt(Dot(b[1], b[1])))
  ELSE 0

\* The Jaccard overlap of two keyword sets, 0 when either is empty.
KeywordOverlap(a, b) ==
  IF a = {} \/ b = {} THEN 0
  ELSE (Cardinality(a \cap b) * Scale) \div Cardinality(a \cup b)

\* C19: the score is base + bonus: base is the cosine when there is a usable
\* one that is not 0 and the keyword overlap otherwise; bonus is the domain
\* bonus for two tabs of one non-empty domain; the sum is not capped.
ScoreIsBasePlusBonus ==
  spc \in {"scored", "edges"} =>
    \A i, j \in DOMAIN sc_tabs :
      i # j =>
        sc_matrix[i][j] =
          (IF UsableCosine(sc_tabs[i].embedding, sc_tabs[j].embedding) # 0
           THEN UsableCosine(sc_tabs[i].embedding, sc_tabs[j].embedding)
           ELSE KeywordOverlap(sc_tabs[i].keywords, sc_tabs[j].keywords))
          + (IF sc_tabs[i].domain # <<>> /\ sc_tabs[i].domain = sc_tabs[j].domain
             THEN sc_opts.domain_bonus ELSE 0)

\* Two tabs of one domain with the same embedding score above 1.0.
ScoreAboveOne ==
  /\ spc = "scored"
  /\ \E i, j \in DOMAIN sc_tabs :
       /\ i # j
       /\ sc_tabs[i].embedding = Some(<<3, 4>>) /\ sc_tabs[j].embedding = Some(<<3, 4>>)
       /\ sc_matrix[i][j] = Scale + sc_opts.domain_bonus
       /\ sc_matrix[i][j] > Scale

(***************************************************************************)
(* Properties of simhash_from_tokens.                                      *)
(***************************************************************************)
\* The number of tokens of the list whose hash has bit i set.
TokensWithBit(tokens, i) == Cardinality({k \in 1..Len(tokens) : i \in TokenHash(tokens[k])})

\* C13: a non-empty token list and any permutation of it have the same
\* fingerprint, in which bit i is set exactly when more tokens have bit i of
\* their hash set than unset.
SimhashOrderFree ==
  (hpc = "both" /\ sh_tokens # <<>>) =>
    /\ sh_value # None
    /\ sh_shuffled_value = sh_value
    /\ \A i \in 0..63 :
         i \in sh_value[1] <=>
           TokensWithBit(sh_tokens, i) > Len(sh_tokens) - TokensWithBit(sh_tokens, i)

\* Two different tokens given in both orders: a bit on which they differ
\* is clear, a bit they share is set.
SimhashTieLeftClear ==
  /\ hpc = "both"
  /\ Len(sh_tokens) = 2 /\ sh_tokens[1] # sh_tokens[2]
  /\ sh_shuffled # sh_tokens
  /\ \E i \in 0..63 :
       /\ i \in TokenHash(sh_tokens[2]) /\ i \notin TokenHash(sh_tokens[1])
       /\ i \notin sh_shuffled_value[1]
  /\ \E i \in 0..63 : i \in sh_value[1]

(***************************************************************************)
(* Numbering and mutual-KNN components of build_groups.                    *)
(***************************************************************************)
\* The ids listed in group g of a build_groups result.
GroupIds(r, g) == {r.groups[g].tab_ids[k] : k \in 1..Len(r.groups[g].tab_ids)}

\* The groups of a result are numbered from 0 in the order of their smallest
\* ids, group 0 holding the smallest id of all.
NumberedByDiscovery(r) ==
  /\ \A g \in DOMAIN r.groups : r.groups[g].id = g /\ GroupIds(r, g) # {}
  /\ DOMAIN r.groups = 0..(Size(r.groups) - 1)
  /\ Min(BgIds) \in GroupIds(r, 0)
  /\ \A g, h \in DOMAIN r.groups : g < h => Min(GroupIds(r, g)) < Min(GroupIds(r, h))

\* C14: groups are numbered 0..k-1 in order of first discovery when the
\* primaries are scanned by ascending id, whatever root each partition has.
GroupsNumberedInOrder ==
  /\ gpc \in {"mutual", "both"} => NumberedByDiscovery(bg_mutual)
  /\ gpc = "both" => NumberedByDiscovery(bg_fallback)

\* Group 0 holds an id above the smallest id of group 1, with the filter on
\* and off.
GroupsInterleaved ==
  /\ gpc = "both"
  /\ Size(bg_mutual.groups) = 2 /\ Size(bg_fallback.groups) = 2
  /\ \E a \in GroupIds(bg_mutual, 0) : a > Min(GroupIds(bg_mutual, 1))
  /\ \E a \in GroupIds(bg_fallback, 0) : a > Min(GroupIds(bg_fallback, 1))

\* The others whose score with position i is at or above the threshold.
AtOrAbove(i) == {j \in DOMAIN bg_matrix : j # i /\ bg_matrix[i][j] >= bg_opts.threshold}

\* The k highest-scoring of them (the lower position first among equals).
TopK(i, k) ==
  {j \in AtOrAbove(i) :
     Cardinality({h \in AtOrAbove(i) : \/ bg_matrix[i][h] > bg_matrix[i][j]
                                       \/ (bg_matrix[i][h] = bg_matrix[i][j] /\ h < j)}) < k}

\* The neighbour set the code keeps: the top knn_k when knn_k is positive,
\* and all of them otherwise.
Kept(i) == IF bg_opts.knn_k > 0 THEN TopK(i, bg_opts.knn_k) ELSE AtOrAbove(i)

RECURSIVE LinkedComponent(_, _)
\* The positions linked to those of S by chains of pairs that are in each
\* other's neighbour set, for neighbour sets near[i].
LinkedComponent(S, near) ==
  IF \E i \in S : \E j \in near[i] : j \notin S /\ i \in near[j]
  THEN LinkedComponent(S \cup {j \in DOMAIN near : \E i \in S : j \in near[i] /\ i \in near[j]},
                       near)
  ELSE S

\* The groups of a build_groups result are the components of the mutual
\* neighbour relation of the neighbour sets near[i].
GroupsAreComponents(r, near) ==
  \A i \in DOMAIN bg_tabs :
    {j \in DOMAIN bg_tabs : SameGroup(r, bg_tabs[i].id, bg_tabs[j].id)}
      = LinkedComponent({i}, near)

\* C20 as stated: with the mutual-KNN filter on and domain grouping off, the
\* groups are the connected components of the relation "each is among the
\* K highest-scoring at-or-above-threshold neighbours of the other".
GroupsAreTopKComponents ==
  (gpc = "mutual" /\ ~bg_opts.domain_group) =>
    GroupsAreComponents(bg_mutual, [i \in DOMAIN bg_matrix |-> TopK(i, bg_opts.knn_k)])

\* C20, amended: the same for K >= 1; for K <= 0 the neighbour sets are not
\* truncated, and the groups are the components of the relation "the score
\* of the pair is at or above the threshold".
GroupsAreMutualComponents ==
  (gpc = "mutual" /\ ~bg_opts.domain_group) =>
    GroupsAreComponents(bg_mutual, [i \in DOMAIN bg_matrix |-> Kept(i)])

\* With K = 1, a tab that has another in its top K, scores at or above the
\* threshold with it, but is not in that one's top K, is left on its own.
OneSidedNeighbourLeftOut ==
  /\ gpc = "mutual" /\ ~bg_opts.domain_group /\ bg_opts.knn_k = 1
  /\ \E i, j \in DOMAIN bg_tabs :
       /\ j \in TopK(i, 1) /\ i \notin TopK(j, 1)
       /\ TopK(j, 1) # {}
       /\ \A h \in DOMAIN bg_tabs : h # i => ~SameGroup(bg_mutual, bg_tabs[i].id, bg_tabs[h].id)

(***************************************************************************)
(* Properties of dedupe_tabs on its own.                                   *)
(***************************************************************************)
\* The other tabs of the duplicate cluster of p that came with a
\* canonical_url.
CanonicalAliases(p) ==
  {d \in DOMAIN dd_in : /\ d # p /\ dd_out.primary_map[d] = dd_out.primary_map[p]
                        /\ dd_in[d].canonical_url # <<>>}

\* C15: a primary that came without a canonical_url and has a duplicate that
\* came with one ends with the canonical_url of such a duplicate.
PrimaryInheritsCanonical ==
  dpc = "done" =>
    \A p \in DOMAIN dd_in :
      (/\ dd_out.primary_map[p] = p
       /\ dd_in[p].canonical_url = <<>>
       /\ CanonicalAliases(p) # {}) =>
        \E d \in CanonicalAliases(p) :
          dd_out.tabs[p].canonical_url = dd_in[d].canonical_url

(***************************************************************************)
(* The graph as a whole.                                                   *)
(***************************************************************************)
\* The three tabs https://a.com/x?utm_source=y, https://a.com/x and
\* https://b.com/z, in that order, under the default options.
ExampleTabs ==
  /\ args = DefaultArgs
  /\ Size(tabs) = 3
  /\ tabs[0].url = <<"h","t","t","p","s",":","/","/","a",".","c","o","m","/","x","?","u","t","m","_","s","o","u","r","c","e","=","y">>
  /\ tabs[1].url = <<"h","t","t","p","s",":","/","/","a",".","c","o","m","/","x">>
  /\ tabs[2].url = <<"h","t","t","p","s",":","/","/","b",".","c","o","m","/","z">>

\* C16: for these three tabs the second is a duplicate of the first, both
\* with the canonical_url https://a.com/x, there are exactly two primaries
\* and one duplicate, and the first and the third are in different groups.
ExampleGraph ==
  (pc = "done" /\ ExampleTabs) =>
    /\ tabs[1].duplicate_of = tabs[0].id
    /\ tabs[0].canonical_url = <<"h","t","t","p","s",":","/","/","a",".","c","o","m","/","x">>
    /\ tabs[1].canonical_url = tabs[0].canonical_url
    /\ {t \in DOMAIN tabs : tabs[t].duplicate_of = NoId} = {0, 2}
    /\ Size(primary_tabs) = 2
    /\ duplicates = 1
    /\ tabs[0].group_id # tabs[2].group_id
    /\ \A g \in DOMAIN groups : Listed(g, tabs[0].id) = 0 \/ Listed(g, tabs[2].id) = 0

\* The graph of the three tabs, each with the keywords of its page.
ExampleGraphBuilt ==
  /\ pc = "done" /\ ExampleTabs
  /\ \A t \in DOMAIN tabs : tabs[t].keywords # {}

\* C17: the graph of an empty tab list is complete and empty: no tab, no
\* group, no edge and no duplicate.
EmptyGraph ==
  (pc = "done" /\ Size(tabs) = 0) =>
    /\ tabs = <<>>
    /\ Size(groups) = 0
    /\ Len(edges) = 0
    /\ duplicates = 0

\* The pipeline has run to its end on an empty tab list.
EmptyGraphBuilt == pc = "done" /\ Size(tabs) = 0

\* The tabs one duplicate pair away from a tab of S, and S.
Grow(S) == S \cup {b \in DOMAIN tabs : \E a \in S : DuplicatePair(a, b)}

RECURSIVE Chained(_)
\* The tabs a chain of duplicate pairs away from a tab of S.
Chained(S) == IF Grow(S) = S THEN S ELSE Chained(Grow(S))

\* Tabs of different domains and different canonical URLs.
Unrelated(a, b) ==
  /\ tabs[a].domain # tabs[b].domain
  /\ tabs[a].canonical_url # tabs[b].canonical_url

\* C18 as stated: two tabs are in one duplicate cluster exactly when a chain
\* of duplicate pairs joins them, and two tabs of different domains and
\* different canonical URLs are never in one cluster.
DedupNeverAcrossDomains ==
  Deduped =>
    /\ \A a, b \in DOMAIN tabs : primary_map[a] = primary_map[b] <=> b \in Chained({a})
    /\ \A a, b \in DOMAIN tabs : Unrelated(a, b) => primary_map[a] # primary_map[b]

\* C18: two tabs are in one duplicate cluster exactly when a chain of
\* duplicate pairs joins them; two tabs of different domains and different
\* canonical URLs are no duplicate pair, however close their fingerprints,
\* and are in one cluster only through a chain of duplicate pairs over a
\* third tab of that cluster.
DedupExactlyChains ==
  Deduped =>
    /\ \A a, b \in DOMAIN tabs : primary_map[a] = primary_map[b] <=> b \in Chained({a})
    /\ \A a, b \in DOMAIN tabs :
         Unrelated(a, b) =>
           /\ ~DuplicatePair(a, b)
           /\ primary_map[a] = primary_map[b] =>
                \E c \in ClusterOf(a) \ {a, b} :
                  /\ c \in Grow({a}) \/ c \in Grow({b})
                  /\ ~Unrelated(a, c) \/ ~Unrelated(c, b)

\* Two tabs of different domains and different canonical URLs, with
\* fingerprints within the threshold, are in one cluster through a third
\* tab, which has the domain of the one and the canonical URL of the other.
UnrelatedJoinedByBridge ==
  /\ Deduped
  /\ \E a, b, c \in DOMAIN tabs :
       /\ Unrelated(a, b)
       /\ tabs[a].simhash # None /\ tabs[b].simhash # None
       /\ hamming_distance(tabs[a].simhash[1], tabs[b].simhash[1]) <= args.dedupe_hamming
       /\ primary_map[a] = primary_map[b]
       /\ c \notin {a, b}
       /\ tabs[c].domain = tabs[a].domain /\ tabs[c].canonical_url # tabs[a].canonical_url
       /\ tabs[c].canonical_url = tabs[b].canonical_url /\ tabs[c].domain # tabs[b].domain

\* C21: an edge has the reason similarity+domain exactly when its two tabs
\* have the same non-empty domain, which is when the domain bonus was added.
EdgeReasonTellsBonus ==
  spc = "edges" =>
    \A k \in 1..Len(sc_edges) :
      sc_edges[k].reason = "similarity+domain" <=>
        /\ sc_tabs[sc_edges[k].source].domain # <<>>
        /\ sc_tabs[sc_edges[k].source].domain = sc_tabs[sc_edges[k].target].domain

(***************************************************************************)
(* Group labels.                                                           *)
(***************************************************************************)
\* The primaries listed in group g, and those of them with domain d.
PrimariesIn(g) == {t \in DOMAIN tabs : Listed(g, tabs[t].id) > 0 /\ tabs[t].duplicate_of = NoId}

PrimariesAt(g, d) == {t \in PrimariesIn(g) : tabs[t].domain = d}

\* Domain d is non-empty and has at least 55% of the primaries of group g.
Dominates(g, d) ==
  d # <<>> /\ Cardinality(PrimariesAt(g, d)) * 100 >= 55 * Cardinality(PrimariesIn(g))

\* The domains of all tabs listed in group g, duplicates included.
MemberDomains(g) == {tabs[t].domain : t \in {u \in DOMAIN tabs : Listed(g, tabs[u].id) > 0}}

\* C22: the label of a group is the domain that has at least 55% of its
\* primaries; when no domain has, the label is no domain of a member,
\* whatever its duplicates are; and a group of one primary with a non-empty
\* domain is labelled with that domain.
LabelFromPrimaries ==
  pc = "done" =>
    \A g \in DOMAIN groups :
      /\ \A d \in MemberDomains(g) : Dominates(g, d) <=> groups[g].label = d
      /\ \A t \in PrimariesIn(g) :
           (PrimariesIn(g) = {t} /\ tabs[t].domain # <<>>) => groups[g].label = tabs[t].domain

\* A group of two primaries of different domains and a duplicate of one of
\* them: its domain has two of three members but one of two primaries.
DuplicateTipsNoLabel ==
  /\ pc = "done"
  /\ \E g \in DOMAIN groups : \E a, b, c \in DOMAIN tabs :
       /\ PrimariesIn(g) = {a, b} /\ tabs[a].domain # tabs[b].domain
       /\ tabs[a].domain # <<>> /\ tabs[b].domain # <<>>
       /\ Listed(g, tabs[c].id) > 0 /\ tabs[c].duplicate_of = tabs[a].id
       /\ tabs[c].domain = tabs[a].domain
       /\ groups[g].label \notin MemberDomains(g)

(***************************************************************************)
(* build_groups when the neighbour lists are not cut.                      *)
(***************************************************************************)
\* knn_k <= 0, or knn_k >= n - 1 for the n primaries given.
KnnCutsNothing == bg_opts.knn_k <= 0 \/ bg_opts.knn_k >= Size(bg_tabs) - 1

\* C23: when knn_k <= 0 or knn_k >= n - 1, build_groups gives the same
\* groups, with the same numbers, with the mutual-KNN filter on and off.
UncutKnnSameGroups ==
  (gpc = "both" /\ KnnCutsNothing) =>
    /\ bg_mutual.groups = bg_fallback.groups
    /\ bg_mutual.tab_to_group = bg_fallback.tab_to_group

\* Three primaries grouped by similarity alone with knn_k = 0: one has both
\* others above the threshold, and the other two are not similar.
UncutKnnChain ==
  /\ gpc = "both" /\ bg_opts.knn_k = 0 /\ ~bg_opts.domain_group
  /\ Size(bg_tabs) = 3
  /\ bg_matrix[0][1] >= bg_opts.threshold /\ bg_matrix[1][2] >= bg_opts.threshold
  /\ bg_matrix[0][2] < bg_opts.threshold
  /\ Size(bg_mutual.groups) = 1

(***************************************************************************)
(* The shape of the final groups.                                          *)
(***************************************************************************)
\* C24: no group is empty: the tab_ids of every group are in ascending
\* order and start with a primary; every duplicate has a larger id than its
\* primary and is in its group; and there are no more groups than primaries,
\* which number the tabs less the duplicates.
GroupsHoldPrimaries ==
  pc = "done" =>
    /\ \A g \in DOMAIN groups :
         /\ Len(groups[g].tab_ids) >= 1
         /\ \A k \in 1..(Len(groups[g].tab_ids) - 1) :
              groups[g].tab_ids[k] < groups[g].tab_ids[k + 1]
         /\ tabs[groups[g].tab_ids[1]].duplicate_of = NoId
    /\ \A t \in DOMAIN tabs :
         tabs[t].duplicate_of # NoId =>
           /\ tabs[t].duplicate_of < tabs[t].id
           /\ tabs[t].group_id = tabs[tabs[t].duplicate_of].group_id
    /\ Size(groups) <= Size(primary_tabs)
    /\ Size(primary_tabs) = Size(tabs) - duplicates

\* One group of two primaries and a duplicate that lies between them.
DuplicateBetweenPrimaries ==
  /\ pc = "done" /\ Size(groups) = 1 /\ Size(tabs) = 3
  /\ tabs[1].duplicate_of = 0 /\ tabs[2].duplicate_of = NoId
  /\ groups[0].tab_ids = <<0, 1, 2>>

====
